---- MODULE Spec2Model ----
(***************************************************************************)
(* A model of the resume analysis pipeline: skill extraction, ATS scoring, *)
(* role matching, job-description matching, the orchestration service and  *)
(* the /analyze request flow.                                              *)
(*                                                                         *)
(* Representation of program values                                        *)
(*   - A Python str that the code scans is a sequence of atoms.  An atom   *)
(*     is either one punctuation/whitespace character or a maximal run of  *)
(*     word characters ([A-Za-z0-9_]); two word atoms are never adjacent.  *)
(*     With that, the regex \b<skill>\b matches exactly at atom            *)
(*     boundaries, len(s) is the sum of the atoms' lengths, and str.split()*)
(*     counts the maximal runs of non-space atoms.                         *)
(*   - A text is [atoms, pad]: the atoms followed by pad copies of         *)
(*     " lorem" (a run-length encoded tail of filler words), so that the   *)
(*     word-count bands of the scorers are reachable.                      *)
(*   - A score is kept exactly, in thirds of a point (every fraction the   *)
(*     ATS scorers produce has denominator 3); a value that the code       *)
(*     passes through round(x, 2) is kept in hundredths.                   *)
(*   - Names that are only stored and printed (role names, categories,     *)
(*     suggestion sentences) are plain strings or short tagged tuples.     *)
(***************************************************************************)
EXTENDS Integers, Sequences, FiniteSets, TLC

VARIABLES
    roles,           \* RoleMatcher.roles (JOB_DATABASE), in catalog order
    synonyms,        \* SKILL_SYNONYMS, in table order
    hash_seed,       \* per OS process: the str hash order of that process
    skill_patterns,  \* per OS process: SkillExtractor.skill_patterns
    call,            \* the arguments of each invocation under analysis
    ret,             \* what each invocation returned ("none" before it ran)
    pc,              \* /analyze: where each request is in the handler
    request,         \* /analyze: the upload and form fields of each request
    locals,          \* the local variables of each handler or analyze_resume call
    response,        \* /analyze: what the caller received
    uploads,         \* /analyze: the files of the uploads directory, by path
    clock            \* /analyze: int(time.time())

vars == <<roles, synonyms, hash_seed, skill_patterns, call, ret,
          pc, request, locals, response, uploads, clock>>

-----------------------------------------------------------------------------
(* Generic helpers *)

Min(a, b) == IF a < b THEN a ELSE b
Max(a, b) == IF a > b THEN a ELSE b

Range(s) == {s[i] : i \in DOMAIN s}

\* max(X) and min(X) of a set of numbers
MaxOfSet(X) == CHOOSE x \in X : \A y \in X : y <= x
MinOfSet(X) == CHOOSE x \in X : \A y \in X : x <= y

RECURSIVE SumSeq(_)
SumSeq(s) ==
    IF Len(s) = 0 THEN 0
    ELSE IF Len(s) = 1 THEN s[1]
    ELSE LET m == Len(s) \div 2
         IN  SumSeq(SubSeq(s, 1, m)) + SumSeq(SubSeq(s, m + 1, Len(s)))

RECURSIVE Flatten(_)
Flatten(ss) ==
    IF Len(ss) = 0 THEN <<>>
    ELSE IF Len(ss) = 1 THEN ss[1]
    ELSE LET m == Len(ss) \div 2
         IN  Flatten(SubSeq(ss, 1, m)) \o Flatten(SubSeq(ss, m + 1, Len(ss)))

SeqMap(F(_), s) == [i \in 1..Len(s) |-> F(s[i])]

Take(s, n) == SubSeq(s, 1, Min(n, Len(s)))

\* n / d rounded to the nearest integer (n >= 0, d > 0)
RoundDiv(n, d) == (2 * n + d) \div (2 * d)

BoolToInt(b) == IF b THEN 1 ELSE 0

-----------------------------------------------------------------------------
(* Strings as atom sequences *)

\* Characters are one-character strings.
Digits     == {"0", "1", "2", "3", "4", "5", "6", "7", "8", "9"}
LowerChars == "abcdefghijklmnopqrstuvwxyz"
UpperChars == "ABCDEFGHIJKLMNOPQRSTUVWXYZ"
\* the characters of the model in code-point order (what str comparison uses)
CharOrder  ==
    "\t\n !#$%&'()*+,-./0123456789:;<=>?@ABCDEFGHIJKLMNOPQRSTUVWXYZ[]^_abcdefghijklmnopqrstuvwxyz{|}~"

CharAt(a, k) == SubSeq(a, k, k)
CharsOf(a)   == {CharAt(a, k) : k \in 1..Len(a)}

LowerSet   == CharsOf(LowerChars)
UpperSet   == CharsOf(UpperChars)
WordChars  == LowerSet \cup UpperSet \cup Digits \cup {"_"}
SpaceAtoms == {" ", "\n", "\t"}

\* an atom is a single non-word character or a maximal run of word characters
IsSpace(a)  == a \in SpaceAtoms
IsWord(a)   == CharAt(a, 1) \in WordChars
IsDigits(a) == \A k \in 1..Len(a) : CharAt(a, k) \in Digits
IsAlpha(a)  == \A k \in 1..Len(a) : CharAt(a, k) \in LowerSet \cup UpperSet

\* str.lower() of one character
LowerChar(c) ==
    IF c \in UpperSet
    THEN CharAt(LowerChars, CHOOSE k \in 1..Len(UpperChars) : CharAt(UpperChars, k) = c)
    ELSE c

\* str.lower() of one atom
LowerAtom(a) ==
    LET RECURSIVE Low(_)
        Low(k) == IF k > Len(a) THEN "" ELSE LowerChar(CharAt(a, k)) \o Low(k + 1)
    IN  IF \E k \in 1..Len(a) : CharAt(a, k) \in UpperSet THEN Low(1) ELSE a

LowerStr(s) == [i \in 1..Len(s) |-> LowerAtom(s[i])]

\* len(s) of a str
StrLen(s) == SumSeq([i \in 1..Len(s) |-> Len(s[i])])

\* the characters of a str as one string
RECURSIVE Concat(_)
Concat(s) ==
    IF Len(s) = 0 THEN ""
    ELSE IF Len(s) = 1 THEN s[1]
    ELSE LET m == Len(s) \div 2
         IN  Concat(SubSeq(s, 1, m)) \o Concat(SubSeq(s, m + 1, Len(s)))

StartsWith(a, p) == Len(a) >= Len(p) /\ SubSeq(a, 1, Len(p)) = p
EndsWith(a, p)   == Len(a) >= Len(p) /\ SubSeq(a, Len(a) - Len(p) + 1, Len(a)) = p
AtomContains(a, p) ==
    \E k \in 1..(Len(a) - Len(p) + 1) : SubSeq(a, k, k + Len(p) - 1) = p

\* the filler word of a text's tail
PadWord == "lorem"
PadLen  == Len(PadWord) + 1

Text(atoms, pad) == [atoms |-> atoms, pad |-> pad]

\* len(text)
TextLen(t) == StrLen(t.atoms) + t.pad * PadLen

\* text.lower()
LowerText(t) == [t EXCEPT !.atoms = LowerStr(t.atoms)]

\* len(text.split())
WordCount(t) ==
    Cardinality({i \in 1..Len(t.atoms) :
                    /\ ~IsSpace(t.atoms[i])
                    /\ (i = 1 \/ IsSpace(t.atoms[i - 1]))})
    + t.pad

\* s occurs in t at atom position i, atom for atom
OccursAt(s, t, i) ==
    /\ i >= 1
    /\ i + Len(s) - 1 <= Len(t)
    /\ \A k \in 1..Len(s) : t[i + k - 1] = s[k]

\* `needle in hay` for str values.  A match lines up with the atoms of the
\* hay except at its two ends, where a word run of the needle may be the end
\* (at the left) or the start (at the right) of a longer word run of the hay.
StrContains(hay, needle) ==
    LET n == Len(needle)
    IN  \/ n = 0
        \/ /\ n = 1
           /\ \E i \in 1..Len(hay) : AtomContains(hay[i], needle[1])
        \/ /\ n >= 2
           /\ \E i \in 1..(Len(hay) - n + 1) :
                 /\ EndsWith(hay[i], needle[1])
                 /\ \A k \in 2..(n - 1) : hay[i + k - 1] = needle[k]
                 /\ StartsWith(hay[i + n - 1], needle[n])

\* the filler tail as atoms, as far as a needle of `n` atoms can reach into it
PadAtoms(t, n) ==
    Flatten([k \in 1..Min(t.pad, n) |-> <<" ", PadWord>>])

\* `needle in text`
TextContains(t, needle) ==
    StrContains(t.atoms \o PadAtoms(t, Len(needle)), needle)

-----------------------------------------------------------------------------
(* job_database.py *)

\* JOB_DATABASE: the first roles of the catalog, in the order of the source
JOB_DATABASE ==
    <<[role |-> "Software Engineer", category |-> "Technology",
     skills |->
        <<(<<"python">>), <<"java">>, <<"javascript">>, <<"c", "+", "+">>,
          <<"go">>, <<"rust">>, <<"typescript">>>>,
     tools |->
        <<(<<"git">>), <<"github">>, <<"gitlab">>, <<"jenkins">>, <<"docker">>,
          <<"kubernetes">>, <<"ci", "/", "cd">>>>,
     soft_skills |->
        <<(<<"problem", " ", "solving">>), <<"teamwork">>, <<"communication">>,
          <<"debugging">>>>,
     certifications |->
        <<(<<"aws", " ", "certified", " ", "developer">>),
          <<"google", " ", "cloud", " ", "certified">>,
          <<"microsoft", " ", "certified">>>>,
     keywords |->
        <<(<<"development">>), <<"coding">>, <<"programming">>, <<"software">>,
          <<"backend">>, <<"frontend">>>>],
    [role |-> "Full Stack Developer", category |-> "Technology",
     skills |->
        <<(<<"react">>), <<"angular">>, <<"vue">>, <<"node", ".", "js">>,
          <<"express">>, <<"mongodb">>, <<"postgresql">>, <<"mysql">>>>,
     tools |->
        <<(<<"webpack">>), <<"babel">>, <<"npm">>, <<"yarn">>, <<"docker">>,
          <<"git">>>>,
     soft_skills |->
        <<(<<"multitasking">>), <<"adaptability">>, <<"communication">>>>,
     certifications |->
        <<(<<"full", " ", "stack", " ", "certification">>),
          <<"react", " ", "certification">>>>,
     keywords |->
        <<(<<"full", " ", "stack">>), <<"web", " ", "development">>,
          <<"frontend">>, <<"backend">>, <<"api">>>>],
    [role |-> "DevOps Engineer", category |-> "Technology",
     skills |->
        <<(<<"docker">>), <<"kubernetes">>, <<"terraform">>, <<"ansible">>,
          <<"jenkins">>, <<"ci", "/", "cd">>, <<"linux">>>>,
     tools |->
        <<(<<"aws">>), <<"azure">>, <<"gcp">>, <<"prometheus">>, <<"grafana">>,
          <<"elk", " ", "stack">>>>,
     soft_skills |->
        <<(<<"automation", " ", "mindset">>), <<"collaboration">>,
          <<"problem", " ", "solving">>>>,
     certifications |->
        <<(<<"aws", " ", "devops">>), <<"kubernetes", " ", "certified">>,
          <<"terraform", " ", "associate">>>>,
     keywords |->
        <<(<<"devops">>), <<"automation">>, <<"infrastructure">>,
          <<"deployment">>, <<"monitoring">>>>],
    [role |-> "Cloud Architect", category |-> "Technology",
     skills |->
        <<(<<"aws">>), <<"azure">>, <<"gcp">>, <<"cloud", " ", "architecture">>,
          <<"microservices">>, <<"serverless">>>>,
     tools |->
        <<(<<"terraform">>), <<"cloudformation">>, <<"kubernetes">>,
          <<"docker">>>>,
     soft_skills |->
        <<(<<"strategic", " ", "thinking">>), <<"communication">>,
          <<"leadership">>>>,
     certifications |->
        <<(<<"aws", " ", "solutions", " ", "architect">>),
          <<"azure", " ", "architect">>, <<"gcp", " ", "architect">>>>,
     keywords |->
        <<(<<"cloud">>), <<"architecture">>, <<"scalability">>,
          <<"infrastructure">>, <<"migration">>>>]>>

\* JOB_DATABASE["Frontend Developer"], a role further down the catalog
FrontendDeveloper ==
    [role |-> "Frontend Developer", category |-> "Technology",
     skills |->
        <<(<<"html">>), <<"css">>, <<"javascript">>, <<"react">>, <<"vue">>,
          <<"angular">>, <<"responsive", " ", "design">>>>,
     tools |->
        <<(<<"webpack">>), <<"babel">>, <<"npm">>, <<"git">>, <<"figma">>,
          <<"chrome", " ", "devtools">>>>,
     soft_skills |->
        <<(<<"attention", " ", "to", " ", "detail">>), <<"creativity">>,
          <<"problem", " ", "solving">>>>,
     certifications |->
        <<(<<"frontend", " ", "certification">>),
          <<"react", " ", "certification">>>>,
     keywords |->
        <<(<<"frontend">>), <<"ui", " ", "development">>,
          <<"web", " ", "development">>, <<"responsive">>, <<"javascript">>>>]

\* SKILL_SYNONYMS, in the order of the source
SKILL_SYNONYMS ==
    <<[primary |-> <<"python">>,
       variants |-> <<(<<"python3">>), <<"py">>, <<"python", " ", "programming">>>>],
      [primary |-> <<"javascript">>,
       variants |-> <<(<<"js">>), <<"javascript", " ", "programming">>,
                     <<"ecmascript">>>>],
      [primary |-> <<"machine", " ", "learning">>,
       variants |-> <<(<<"ml">>), <<"statistical", " ", "learning">>,
                     <<"predictive", " ", "modeling">>>>],
      [primary |-> <<"deep", " ", "learning">>,
       variants |-> <<(<<"dl">>), <<"neural", " ", "networks">>,
                     <<"artificial", " ", "neural", " ", "networks">>>>],
      [primary |-> <<"natural", " ", "language", " ", "processing">>,
       variants |-> <<(<<"nlp">>), <<"text", " ", "analytics">>,
                     <<"text", " ", "mining">>>>],
      [primary |-> <<"computer", " ", "vision">>,
       variants |-> <<(<<"cv">>), <<"image", " ", "processing">>,
                     <<"visual", " ", "recognition">>>>],
      [primary |-> <<"sql">>,
       variants |-> <<(<<"structured", " ", "query", " ", "language">>),
                     <<"tsql">>, <<"plsql">>, <<"mysql">>, <<"postgresql">>>>],
      [primary |-> <<"aws">>,
       variants |-> <<(<<"amazon", " ", "web", " ", "services">>),
                     <<"amazon", " ", "aws">>>>],
      [primary |-> <<"azure">>,
       variants |-> <<(<<"microsoft", " ", "azure">>), <<"azure", " ", "cloud">>>>],
      [primary |-> <<"gcp">>,
       variants |-> <<(<<"google", " ", "cloud", " ", "platform">>),
                     <<"google", " ", "cloud">>>>],
      [primary |-> <<"docker">>,
       variants |-> <<(<<"containerization">>), <<"containers">>>>],
      [primary |-> <<"kubernetes">>,
       variants |-> <<(<<"k8s">>), <<"container", " ", "orchestration">>>>],
      [primary |-> <<"ci", "/", "cd">>,
       variants |-> <<(<<"continuous", " ", "integration">>),
                     <<"continuous", " ", "deployment">>, <<"cicd">>>>],
      [primary |-> <<"agile">>,
       variants |-> <<(<<"scrum">>), <<"agile", " ", "methodology">>,
                     <<"agile", " ", "development">>>>],
      [primary |-> <<"git">>,
       variants |-> <<(<<"version", " ", "control">>),
                     <<"source", " ", "control">>, <<"github">>, <<"gitlab">>>>],
      [primary |-> <<"react">>,
       variants |-> <<(<<"reactjs">>), <<"react", ".", "js">>>>],
      [primary |-> <<"node", ".", "js">>,
       variants |-> <<(<<"nodejs">>), <<"node">>>>],
      [primary |-> <<"api">>,
       variants |-> <<(<<"rest", " ", "api">>), <<"restful", " ", "api">>,
                     <<"web", " ", "service">>>>],
      [primary |-> <<"tableau">>,
       variants |-> <<(<<"tableau", " ", "desktop">>),
                     <<"tableau", " ", "server">>>>],
      [primary |-> <<"power", " ", "bi">>,
       variants |-> <<(<<"powerbi">>), <<"microsoft", " ", "power", " ", "bi">>>>],
      [primary |-> <<"excel">>,
       variants |-> <<(<<"microsoft", " ", "excel">>), <<"ms", " ", "excel">>,
                     <<"spreadsheet">>>>]>>

-----------------------------------------------------------------------------
(* ats_analyzer.py *)

SectionNames ==
    <<"contact", "summary", "experience", "education",
      "skills", "projects", "certifications", "awards">>

\* ATSAnalyzer.section_keywords
SectionKeywords(section) ==
    CASE section = "contact" ->
            <<(<<"email">>), <<"phone">>, <<"linkedin">>, <<"github">>, <<"portfolio">>>>
      [] section = "summary" ->
            <<(<<"summary">>), <<"profile">>, <<"objective">>, <<"about">>>>
      [] section = "experience" ->
            <<(<<"experience">>), <<"work", " ", "history">>, <<"employment">>,
              <<"professional", " ", "experience">>>>
      [] section = "education" ->
            <<(<<"education">>), <<"academic">>, <<"degree">>, <<"university">>,
              <<"college">>>>
      [] section = "skills" ->
            <<(<<"skills">>), <<"technical", " ", "skills">>,
              <<"core", " ", "competencies">>, <<"expertise">>>>
      [] section = "projects" ->
            <<(<<"projects">>), <<"portfolio">>, <<"key", " ", "projects">>>>
      [] section = "certifications" ->
            <<(<<"certifications">>), <<"licenses">>, <<"credentials">>>>
      [] section = "awards" ->
            <<(<<"awards">>), <<"honors">>, <<"achievements">>, <<"recognition">>>>

\* ATSAnalyzer.detect_sections
DetectSections(text) ==
    [s \in Range(SectionNames) |->
        \E k \in DOMAIN SectionKeywords(s) :
            TextContains(LowerText(text), SectionKeywords(s)[k])]

RequiredSections    == <<"experience", "education", "skills">>
RecommendedSections == <<"summary", "projects", "certifications">>

\* the sections of `names` that the map does not have, in list order
MissingSections(names, sections) ==
    SelectSeq(names, LAMBDA s : ~sections[s])

\* ATSAnalyzer._score_sections; score in thirds of a point
ScoreSections(sections) ==
    LET required_present ==
            Cardinality({i \in DOMAIN RequiredSections : sections[RequiredSections[i]]})
        recommended_present ==
            Cardinality({i \in DOMAIN RecommendedSections : sections[RecommendedSections[i]]})
    IN  [score |-> required_present * 15 + recommended_present * 10,
         suggestions |->
            SeqMap(LAMBDA s : <<"critical_add_section", s>>,
                   MissingSections(RequiredSections, sections))
            \o SeqMap(LAMBDA s : <<"add_section", s>>,
                      MissingSections(RecommendedSections, sections))]

\* ATSAnalyzer._score_keywords; score in thirds of a point
ScoreKeywords(text, skills) ==
    LET skill_count == Len(skills)
        word_count  == WordCount(text)
        count_pts == IF skill_count >= 15 THEN 10
                     ELSE IF skill_count >= 10 THEN 7
                     ELSE IF skill_count >= 5 THEN 4 ELSE 0
        \* keyword_density = (skill_count * 3) / word_count against 0.05, 0.03, 0.01
        density_pts ==
            IF word_count > 0
            THEN IF skill_count * 3 * 100 >= 5 * word_count THEN 10
                 ELSE IF skill_count * 3 * 100 >= 3 * word_count THEN 7
                 ELSE IF skill_count * 3 * 100 >= 1 * word_count THEN 4 ELSE 0
            ELSE 0
    IN  [score |-> 3 * (count_pts + density_pts),
         suggestions |->
            (IF skill_count < 5 THEN <<(<<"add_more_skills">>)>> ELSE <<>>)
            \o (IF word_count > 0 /\ density_pts = 0
                THEN <<(<<"increase_density">>)>> ELSE <<>>)
            \o (IF skill_count < 8
                THEN <<(<<"add_n_skills", 8 - skill_count>>)>> ELSE <<>>)]

WeakPhrases ==
    <<(<<"responsible", " ", "for">>), <<"duties", " ", "include">>,
      <<"tasks", " ", "include">>>>

\* ATSAnalyzer._score_action_verbs; score in thirds of a point
ScoreActionVerbs(text, action_verbs) ==
    LET text_lower == LowerText(text)
        unique_verbs == Len(action_verbs)
        total_verb_usage == SumSeq([i \in 1..Len(action_verbs) |-> action_verbs[i].count])
        diversity == IF unique_verbs >= 10 THEN 7
                     ELSE IF unique_verbs >= 6 THEN 5
                     ELSE IF unique_verbs >= 3 THEN 3 ELSE 0
        frequency == IF total_verb_usage >= 15 THEN 8
                     ELSE IF total_verb_usage >= 10 THEN 5
                     ELSE IF total_verb_usage >= 5 THEN 3 ELSE 0
    IN  [score |-> 3 * (diversity + frequency),
         suggestions |->
            (IF unique_verbs < 3 THEN <<(<<"diverse_verbs">>)>> ELSE <<>>)
            \o (IF total_verb_usage < 5 THEN <<(<<"start_with_verbs">>)>> ELSE <<>>)
            \o SeqMap(LAMBDA p : <<"replace_weak_phrase", p>>,
                      SelectSeq(WeakPhrases, LAMBDA p : TextContains(text_lower, p)))
            \o (IF unique_verbs < 8 THEN <<(<<"example_verbs">>)>> ELSE <<>>)]

\* re.search(r'\d{2,}', s)
HasTwoDigits(s) == \E i \in 1..Len(s) : IsDigits(s[i]) /\ Len(s[i]) >= 2

\* _score_metrics with the quality check worth 5 points per kind of figure
\* instead of 5 points for all three
ScoreMetricsQualityUnscaled(metrics, text) ==
    LET metric_count == Len(metrics)
        quantity == IF metric_count >= 8 THEN 15
                    ELSE IF metric_count >= 5 THEN 10
                    ELSE IF metric_count >= 3 THEN 6
                    ELSE IF metric_count >= 1 THEN 3 ELSE 0
        quality_count ==
            BoolToInt(\E i \in 1..Len(metrics) : StrContains(metrics[i].metric, <<"%">>))
            + BoolToInt(\E i \in 1..Len(metrics) : HasTwoDigits(metrics[i].metric))
            + BoolToInt(\E i \in 1..Len(metrics) : StrContains(metrics[i].metric, <<"$">>))
    IN  [score |-> 3 * quantity + 3 * quality_count * 5, suggestions |-> <<>>]

\* ATSAnalyzer._score_metrics; score in thirds of a point
ScoreMetrics(metrics, text) ==
    LET metric_count == Len(metrics)
        quantity == IF metric_count >= 8 THEN 15
                    ELSE IF metric_count >= 5 THEN 10
                    ELSE IF metric_count >= 3 THEN 6
                    ELSE IF metric_count >= 1 THEN 3 ELSE 0
        has_percentages ==
            \E i \in 1..Len(metrics) : StrContains(metrics[i].metric, <<"%">>)
        has_numbers == \E i \in 1..Len(metrics) : HasTwoDigits(metrics[i].metric)
        has_currency ==
            \E i \in 1..Len(metrics) : StrContains(metrics[i].metric, <<"$">>)
        quality_count ==
            BoolToInt(has_percentages) + BoolToInt(has_numbers) + BoolToInt(has_currency)
    IN  [score |-> 3 * quantity + quality_count * 5,
         suggestions |->
            (IF metric_count = 0 THEN <<(<<"critical_add_metrics">>)>> ELSE <<>>)
            \o (IF metric_count < 5 THEN <<(<<"add_numbers">>)>> ELSE <<>>)
            \o (IF ~has_percentages THEN <<(<<"include_percentages">>)>> ELSE <<>>)
            \o (IF metric_count = 0 THEN <<(<<"metrics_example">>)>> ELSE <<>>)]

\* the bullet characters of _score_formatting that the vocabulary can spell
BulletAtoms == {"-", "*"}

\* ATSAnalyzer._score_formatting; score in thirds of a point
ScoreFormatting(text) ==
    LET word_count == WordCount(text)
        length_pts == IF 400 <= word_count /\ word_count <= 1000 THEN 5
                      ELSE IF 300 <= word_count /\ word_count <= 1200 THEN 3 ELSE 0
        has_bullets == \E i \in 1..Len(text.atoms) : text.atoms[i] \in BulletAtoms
    IN  [score |-> 3 * (length_pts + (IF has_bullets THEN 5 ELSE 0)),
         suggestions |->
            (IF length_pts = 0
             THEN IF word_count < 300 THEN <<(<<"too_short">>)>> ELSE <<(<<"condense">>)>>
             ELSE <<>>)
            \o (IF has_bullets THEN <<>> ELSE <<(<<"use_bullets">>)>>)]

\* re.search(email_pattern, text): a local part that starts at a word run and
\* stays in [A-Za-z0-9._%+-], "@", a domain in [A-Za-z0-9.-], then "." and a
\* whole run of two or more letters
HasEmail(s) ==
    \E m \in {k \in 1..Len(s) : s[k] = "@"} :
        /\ \E i \in 1..(m - 1) :
              /\ IsWord(s[i])
              /\ \A k \in i..(m - 1) : IsWord(s[k]) \/ s[k] \in {".", "%", "+", "-"}
        /\ \E j \in (m + 3)..Len(s) :
              /\ \A k \in (m + 1)..(j - 2) : IsWord(s[k]) \/ s[k] \in {".", "-"}
              /\ s[j - 1] = "."
              /\ IsAlpha(s[j]) /\ Len(s[j]) >= 2

\* re.search(phone_pattern, text): \b\d{3}[-.]?\d{3}[-.]?\d{4}\b
HasPhone(s) ==
    \E i \in 1..Len(s) :
        \/ IsDigits(s[i]) /\ Len(s[i]) = 10
        \/ /\ i + 4 <= Len(s)
           /\ IsDigits(s[i]) /\ Len(s[i]) = 3
           /\ s[i + 1] \in {"-", "."}
           /\ IsDigits(s[i + 2]) /\ Len(s[i + 2]) = 3
           /\ s[i + 3] \in {"-", "."}
           /\ IsDigits(s[i + 4]) /\ Len(s[i + 4]) = 4
        \/ /\ i + 2 <= Len(s)
           /\ IsDigits(s[i]) /\ IsDigits(s[i + 2]) /\ s[i + 1] \in {"-", "."}
           /\ <<Len(s[i]), Len(s[i + 2])>> \in {<<6, 4>>, <<3, 7>>}

\* ATSAnalyzer._score_contact_info; score in thirds of a point
ScoreContactInfo(text) ==
    LET has_email    == HasEmail(text.atoms)
        has_phone    == HasPhone(text.atoms)
        has_linkedin == TextContains(LowerText(text), <<"linkedin">>)
        has_github   == \/ TextContains(LowerText(text), <<"github">>)
                        \/ TextContains(LowerText(text), <<"portfolio">>)
    IN  [score |-> 3 * ((IF has_email THEN 3 ELSE 0) + (IF has_phone THEN 2 ELSE 0)
                        + (IF has_linkedin THEN 3 ELSE 0) + (IF has_github THEN 2 ELSE 0)),
         suggestions |->
            (IF has_email THEN <<>> ELSE <<(<<"include_email">>)>>)
            \o (IF has_phone THEN <<>> ELSE <<(<<"include_phone">>)>>)
            \o (IF has_linkedin THEN <<>> ELSE <<(<<"add_linkedin">>)>>)
            \o (IF has_github THEN <<>> ELSE <<(<<"include_github">>)>>)]

\* the order in which analyze_ats_score fills the scores dict
Categories ==
    <<"sections", "keywords", "action_verbs", "metrics", "formatting", "contact">>

\* ATSAnalyzer._get_max_score, in points
GetMaxScore(category) ==
    CASE category = "sections"     -> 25
      [] category = "keywords"     -> 20
      [] category = "action_verbs" -> 15
      [] category = "metrics"      -> 20
      [] category = "formatting"   -> 10
      [] category = "contact"      -> 10
      [] OTHER                     -> 0

\* ATSAnalyzer._get_grade_and_feedback; score in thirds of a point
GetGradeAndFeedback(score) ==
    IF score >= 3 * 90 THEN "A+"
    ELSE IF score >= 3 * 85 THEN "A"
    ELSE IF score >= 3 * 80 THEN "A-"
    ELSE IF score >= 3 * 75 THEN "B+"
    ELSE IF score >= 3 * 70 THEN "B"
    ELSE IF score >= 3 * 65 THEN "B-"
    ELSE IF score >= 3 * 60 THEN "C+"
    ELSE IF score >= 3 * 55 THEN "C"
    ELSE "D"

\* percentage = (score / max_score) * 100, compared with a whole threshold
PercentAtLeast(scores, c, threshold) ==
    GetMaxScore(c) > 0 /\ scores[c] * 100 >= threshold * 3 * GetMaxScore(c)

\* the :.0f rendering of percentage in the strengths and priorities lines
PercentShown(scores, c) ==
    IF GetMaxScore(c) > 0 THEN RoundDiv(scores[c] * 100, 3 * GetMaxScore(c)) ELSE 0

\* ATSAnalyzer._identify_strengths
IdentifyStrengths(scores) ==
    LET strengths ==
            SeqMap(LAMBDA c : <<"strong", c, PercentShown(scores, c)>>,
                   SelectSeq(Categories, LAMBDA c : PercentAtLeast(scores, c, 80)))
    IN  IF strengths # <<>> THEN strengths ELSE <<(<<"keep_working">>)>>

\* _identify_priorities without its cap of five entries
IdentifyPrioritiesUncapped(scores, suggestions) ==
    LET priorities ==
            SeqMap(LAMBDA c :
                      IF ~PercentAtLeast(scores, c, 50)
                      THEN <<"urgent", c, PercentShown(scores, c)>>
                      ELSE <<"important", c, PercentShown(scores, c)>>,
                   SelectSeq(Categories, LAMBDA c : ~PercentAtLeast(scores, c, 70)))
    IN  IF priorities # <<>> THEN priorities ELSE <<(<<"great_job">>)>>

\* _identify_priorities listing the categories below 50% only
IdentifyPrioritiesUrgentOnly(scores, suggestions) ==
    LET priorities ==
            SeqMap(LAMBDA c : <<"urgent", c, PercentShown(scores, c)>>,
                   SelectSeq(Categories, LAMBDA c : ~PercentAtLeast(scores, c, 50)))
    IN  IF priorities # <<>> THEN Take(priorities, 5) ELSE <<(<<"great_job">>)>>

\* ATSAnalyzer._identify_priorities
IdentifyPriorities(scores, suggestions) ==
    LET priorities ==
            SeqMap(LAMBDA c :
                      IF ~PercentAtLeast(scores, c, 50)
                      THEN <<"urgent", c, PercentShown(scores, c)>>
                      ELSE <<"important", c, PercentShown(scores, c)>>,
                   SelectSeq(Categories, LAMBDA c : ~PercentAtLeast(scores, c, 70)))
    IN  IF priorities # <<>> THEN Take(priorities, 5) ELSE <<(<<"great_job">>)>>

\* ATSAnalyzer.analyze_ats_score.  breakdown is in thirds of a point,
\* overall_score = round(sum, 2) is in hundredths.
AnalyzeAtsScore(text, extracted_skills, sections_found, action_verbs, metrics) ==
    LET Report(scores, suggestions, overall_score) ==
            [overall_score |-> RoundDiv(overall_score * 100, 3),
             grade |-> GetGradeAndFeedback(overall_score),
             breakdown |-> scores,
             suggestions |-> Take(suggestions, 15),
             strengths |-> IdentifyStrengths(scores),
             priority_improvements |-> IdentifyPriorities(scores, suggestions)]
        Sum(scores, suggestions) ==
            Report(scores, suggestions,
                   SumSeq([i \in 1..Len(Categories) |-> scores[Categories[i]]]))
        \* r: what each category's scoring returned
        Collect(r) ==
            Sum([c \in Range(Categories) |-> r[c].score],
                r.sections.suggestions \o r.keywords.suggestions
                \o r.action_verbs.suggestions \o r.metrics.suggestions
                \o r.formatting.suggestions \o r.contact.suggestions)
    IN  Collect([sections |-> ScoreSections(sections_found),
                 keywords |-> ScoreKeywords(text, extracted_skills),
                 action_verbs |-> ScoreActionVerbs(text, action_verbs),
                 metrics |-> ScoreMetrics(metrics, text),
                 formatting |-> ScoreFormatting(text),
                 contact |-> ScoreContactInfo(text)])

-----------------------------------------------------------------------------
(* Orderings of str values *)

\* the code-point order of the characters
CharRank == [c \in CharsOf(CharOrder) |->
                CHOOSE k \in 1..Len(CharOrder) : CharAt(CharOrder, k) = c]

\* a < b for two strings, character by character
StringLess(a, b) ==
    LET RECURSIVE Less(_)
        Less(k) == IF k > Len(a) THEN k <= Len(b)
                   ELSE IF k > Len(b) THEN FALSE
                   ELSE IF CharAt(a, k) = CharAt(b, k) THEN Less(k + 1)
                   ELSE CharRank[CharAt(a, k)] < CharRank[CharAt(b, k)]
    IN  Less(1)

\* s < t for str values (the order sorted() uses): equal leading atoms are
\* equal characters, and the comparison is decided in what follows them
RECURSIVE StrLess(_, _)
StrLess(s, t) ==
    IF t = <<>> THEN FALSE
    ELSE IF s = <<>> THEN TRUE
    ELSE IF Head(s) = Head(t) THEN StrLess(Tail(s), Tail(t))
    ELSE IF StartsWith(Head(s), Head(t)) \/ StartsWith(Head(t), Head(s))
         THEN StringLess(Concat(s), Concat(t))
         ELSE StringLess(Head(s), Head(t))

\* list.sort / sorted(): a stable sort; Before(x, y) says x sorts strictly
\* before y, and elements neither of which sorts before the other keep their
\* order.  Each element is put after the elements already placed that it
\* does not sort before.
StableSort(s, Before(_, _)) ==
    LET Precedes(j, i) ==
            Before(s[j], s[i]) \/ (j < i /\ ~Before(s[i], s[j]))
        Place(ranked) ==
            [k \in DOMAIN s |-> s[(CHOOSE p \in ranked : p[1] = k)[2]]]
    IN  Place({<<1 + Cardinality({j \in DOMAIN s : Precedes(j, i)}), i>> :
                  i \in DOMAIN s}) \o <<>>

\* the elements of a set in the strict total order Before
SetToSeq(S, Before(_, _)) ==
    LET Place(ranked) ==
            [k \in 1..Cardinality(S) |-> (CHOOSE p \in ranked : p[1] = k)[2]]
    IN  Place({<<1 + Cardinality({y \in S : Before(y, x)}), x>> : x \in S}) \o <<>>

\* sorted(list(a_set_of_str))
SortedStrs(S) == SetToSeq(S, StrLess)

\* the seeds a process may start with (PYTHONHASHSEED is random unless it is
\* set); a seed fixes hash(s) of every str for the life of the process
HashSeeds == {0, 1}

\* iterating a set of str follows the hashes of its elements: one order under
\* one seed, another order under another
SetIterationOrder(S, seed) ==
    IF seed = 0 THEN SetToSeq(S, StrLess)
    ELSE SetToSeq(S, LAMBDA x, y : StrLess(y, x))

-----------------------------------------------------------------------------
(* role_matcher.py *)

\* `k in SKILL_SYNONYMS` and SKILL_SYNONYMS[k], lower-cased
IsSynonymKey(syn, k) == \E i \in DOMAIN syn : syn[i].primary = k
SynonymsOf(syn, k) ==
    LET i == CHOOSE i \in DOMAIN syn : syn[i].primary = k
    IN  {LowerStr(v) : v \in Range(syn[i].variants)}

\* _match_with_synonyms without the reverse lookup (the requirement being a
\* variant of an extracted canonical skill)
MatchWithSynonymsForwardOnly(syn, required, extracted) ==
    {req_skill \in required :
        \/ req_skill \in extracted
        \/ /\ IsSynonymKey(syn, req_skill)
           /\ \E s \in SynonymsOf(syn, req_skill) : s \in extracted}

\* _match_with_synonyms adding the extracted skill as well when a
\* requirement is met through the synonym table
MatchWithSynonymsBothSides(syn, required, extracted) ==
    {req_skill \in required :
        \/ req_skill \in extracted
        \/ /\ IsSynonymKey(syn, req_skill)
           /\ \E s \in SynonymsOf(syn, req_skill) : s \in extracted}
    \cup {ext_skill \in extracted :
              /\ IsSynonymKey(syn, ext_skill)
              /\ \E req_skill \in required : req_skill \in SynonymsOf(syn, ext_skill)}
    \cup {req_skill \in required :
              \E ext_skill \in extracted :
                  /\ IsSynonymKey(syn, ext_skill)
                  /\ req_skill \in SynonymsOf(syn, ext_skill)}

\* RoleMatcher._match_with_synonyms
MatchWithSynonyms(syn, required, extracted) ==
    {req_skill \in required :
        \/ req_skill \in extracted
        \/ /\ IsSynonymKey(syn, req_skill)
           /\ \E s \in SynonymsOf(syn, req_skill) : s \in extracted
        \/ \E ext_skill \in extracted :
              /\ IsSynonymKey(syn, ext_skill)
              /\ req_skill \in SynonymsOf(syn, ext_skill)}

\* a fraction n / d
Frac(n, d) == [n |-> n, d |-> d]

\* _calculate_coverage_score with its empty-set test on the matched set
\* instead of the required set
CalculateCoverageScoreEmptyMatched(matched, required) ==
    IF matched = {} THEN Frac(1, 1)
    ELSE Frac(Min(Cardinality(matched), Cardinality(required)), Cardinality(required))

\* RoleMatcher._calculate_coverage_score: the coverage as a fraction
CalculateCoverageScore(matched, required) ==
    LET m == Cardinality(matched)
        r == Cardinality(required)
    IN  IF r = 0 THEN Frac(1, 1)
        ELSE IF m > r
             \* min(1.0, m / r + min(0.1, (m - r) * 0.02))
             THEN Frac(Min(50 * m + r * Min(5, m - r), 50 * r), 50 * r)
             ELSE Frac(m, r)

\* _match_certifications giving 0 for a role that lists no certifications
MatchCertificationsNoneZero(user_certs, preferred_certs) ==
    LET user_certs_lower == {LowerStr(c) : c \in Range(user_certs)}
        matches == Cardinality({p \in preferred_certs :
                                   \E u \in user_certs_lower : StrContains(u, p)})
    IN  IF matches = 0 THEN Frac(0, 1)
        ELSE Frac(Min(Cardinality(preferred_certs), matches),
                  Cardinality(preferred_certs))

\* RoleMatcher._match_certifications: the score as a fraction of 100
MatchCertifications(user_certs, preferred_certs) ==
    LET user_certs_lower == {LowerStr(c) : c \in Range(user_certs)}
        matches == Cardinality({p \in preferred_certs :
                                   \E u \in user_certs_lower : StrContains(u, p)})
    IN  IF preferred_certs = {} THEN Frac(1, 2)
        ELSE IF matches = 0 THEN Frac(0, 1)
        ELSE Frac(Min(Cardinality(preferred_certs), matches),
                  Cardinality(preferred_certs))

\* _calculate_confidence deciding by the average score alone
CalculateConfidenceByScore(skill_score, tool_score, skills_count, tools_count) ==
    LET avg_num == skill_score.n * tool_score.d + tool_score.n * skill_score.d
        avg_den == 2 * skill_score.d * tool_score.d
    IN  IF avg_num * 100 >= 80 * avg_den THEN "Very High"
        ELSE IF avg_num * 100 >= 60 * avg_den THEN "High"
        ELSE IF avg_num * 100 >= 40 * avg_den THEN "Medium"
        ELSE IF avg_num * 100 >= 20 * avg_den THEN "Low"
        ELSE "Very Low"

\* RoleMatcher._calculate_confidence; the scores are fractions of 100
CalculateConfidence(skill_score, tool_score, skills_count, tools_count) ==
    LET \* avg_score >= t  <=>  avg_num * 100 >= t * avg_den
        avg_num == skill_score.n * tool_score.d + tool_score.n * skill_score.d
        avg_den == 2 * skill_score.d * tool_score.d
        total_matches == skills_count + tools_count
    IN  IF avg_num * 100 >= 80 * avg_den /\ total_matches >= 8 THEN "Very High"
        ELSE IF avg_num * 100 >= 60 * avg_den /\ total_matches >= 5 THEN "High"
        ELSE IF avg_num * 100 >= 40 * avg_den /\ total_matches >= 3 THEN "Medium"
        ELSE IF avg_num * 100 >= 20 * avg_den THEN "Low"
        ELSE "Very Low"

\* RoleMatcher._identify_critical_skills
IdentifyCriticalSkills(missing_skills, keywords) ==
    LET keywords_lower == {LowerStr(k) : k \in Range(keywords)}
    IN  {skill \in missing_skills :
            \E keyword \in keywords_lower :
                StrContains(skill, keyword) \/ StrContains(keyword, skill)}

\* round(fraction * 100, 2), in hundredths
Round2(f) == RoundDiv(f.n * 10000, f.d)

\* RoleMatcher._calculate_match
CalculateMatch(syn, role_data, extracted_skills, skill_details, experience_years, certifications, education) ==
    LET required_skills == {LowerStr(s) : s \in Range(role_data.skills)}
        required_tools == {LowerStr(s) : s \in Range(role_data.tools)}
        required_soft_skills == {LowerStr(s) : s \in Range(role_data.soft_skills)}
        preferred_certs == {LowerStr(c) : c \in Range(role_data.certifications)}
        extracted_set == {LowerStr(s) : s \in Range(extracted_skills)}
        \* overall_score = 0.40 skill + 0.25 tool + 0.15 soft + 0.10 cert + 0.10 exp,
        \* the five scores s being fractions and den a common denominator
        Overall(s, den) ==
            RoundDiv((40 * s.skill.n * (den \div s.skill.d)
                      + 25 * s.tool.n * (den \div s.tool.d)
                      + 15 * s.soft_skill.n * (den \div s.soft_skill.d)
                      + 10 * s.cert.n * (den \div s.cert.d)
                      + 10 * s.experience.n * (den \div s.experience.d)) * 100,
                     den)
        Record(m, s, missing_skills) ==
            [role |-> role_data.role,
             category |-> role_data.category,
             overall_score |->
                Overall(s, s.skill.d * s.tool.d * s.soft_skill.d * s.cert.d
                           * s.experience.d),
             confidence |-> CalculateConfidence(s.skill, s.tool,
                                                Cardinality(m.skills),
                                                Cardinality(m.tools)),
             breakdown |-> [technical_skills |-> Round2(s.skill),
                            tools |-> Round2(s.tool),
                            soft_skills |-> Round2(s.soft_skill),
                            certifications |-> Round2(s.cert),
                            experience |-> Round2(s.experience)],
             matched_skills |-> [technical |-> SortedStrs(m.skills),
                                 tools |-> SortedStrs(m.tools),
                                 soft_skills |-> SortedStrs(m.soft_skills)],
             missing_skills |->
                [critical |->
                    Take(SortedStrs(IdentifyCriticalSkills(missing_skills,
                                                           role_data.keywords)), 5),
                 all |-> Take(SortedStrs(missing_skills), 10)],
             match_count |-> [technical |-> <<Cardinality(m.skills),
                                              Cardinality(required_skills)>>,
                              tools |-> <<Cardinality(m.tools),
                                          Cardinality(required_tools)>>,
                              total |-> <<Cardinality(m.skills \cup m.tools),
                                          Cardinality(required_skills
                                                      \cup required_tools)>>]]
        \* m: skills_matched, tools_matched and soft_skills_matched
        Scored(m) ==
            Record(m,
                   [skill |-> CalculateCoverageScore(m.skills, required_skills),
                    tool |-> CalculateCoverageScore(m.tools, required_tools),
                    soft_skill |-> CalculateCoverageScore(m.soft_skills,
                                                          required_soft_skills),
                    cert |-> MatchCertifications(certifications, preferred_certs),
                    experience |-> Frac(Min(experience_years * 10, 100), 100)],
                   (required_skills \cup required_tools) \ (m.skills \cup m.tools))
    IN  Scored([skills |-> MatchWithSynonyms(syn, required_skills, extracted_set),
                tools |-> MatchWithSynonyms(syn, required_tools, extracted_set),
                soft_skills |->
                    MatchWithSynonyms(syn, required_soft_skills, extracted_set)])

\* results.sort(key=overall_score, reverse=True) done as an ascending sort
\* followed by a reversal, which turns the order of equal scores around
SortByScoreReversed(results) ==
    LET asc == StableSort(results, LAMBDA x, y : x.overall_score < y.overall_score)
    IN  [i \in 1..Len(asc) |-> asc[Len(asc) + 1 - i]]

\* results.sort(key=lambda x: x["overall_score"], reverse=True)
SortByScore(results) ==
    StableSort(results, LAMBDA x, y : x.overall_score > y.overall_score)

\* RoleMatcher.match_roles
MatchRoles(role_db, syn, extracted_skills, skill_details, experience_years, certifications, education) ==
    SortByScore([i \in 1..Len(role_db) |->
                    CalculateMatch(syn, role_db[i], extracted_skills, skill_details,
                                   experience_years, certifications, education)])

\* RoleMatcher._generate_insights; scores in hundredths
RoleInsights(match) ==
    <<(IF match.overall_score >= 8000 THEN "excellent_match"
       ELSE IF match.overall_score >= 6000 THEN "good_match"
       ELSE IF match.overall_score >= 4000 THEN "moderate_match"
       ELSE "low_match")>>
    \o (IF match.breakdown.technical_skills < 5000 THEN <<"build_core_skills">> ELSE <<>>)
    \o (IF match.breakdown.tools < 5000 THEN <<"gain_tool_experience">> ELSE <<>>)
    \o (IF match.breakdown.certifications < 3000 THEN <<"consider_certifications">>
        ELSE <<>>)
    \o (IF match.breakdown.technical_skills >= 7000 THEN <<"strong_foundation">> ELSE <<>>)
    \o (IF match.breakdown.tools >= 7000 THEN <<"good_tool_familiarity">> ELSE <<>>)

\* one match record with its "insights" key set, as get_top_matches leaves it
WithInsights(match) ==
    [k \in DOMAIN match \cup {"insights"} |->
        IF k = "insights" THEN RoleInsights(match) ELSE match[k]]

\* RoleMatcher.get_top_matches: the first top_n records, annotated
GetTopMatches(all_matches, top_n) ==
    SeqMap(WithInsights, Take(all_matches, top_n))

-----------------------------------------------------------------------------
(* analysis_service.py: the health score *)

\* The components of _calculate_health_score in units of 1/750 point: with the
\* ATS score in hundredths every component is a whole number of them.

\* ats_component = (ats_score / 100) * 40
HealthAtsComponent(ats_score) == ats_score * 3

\* skill_score = (skill_count / 15) * 25, without the min(..., 1.0)
HealthSkillUncapped(skill_count) == skill_count * 1250

\* skill_score = min(skill_count / 15, 1.0) * 25
HealthSkillComponent(skill_count) == Min(skill_count, 15) * 1250

\* content_component = min(verb_count / 10, 1.0) * 10 + min(metric_count / 5, 1.0) * 10
HealthContentComponent(verb_count, metric_count) ==
    Min(verb_count, 10) * 750 + Min(metric_count, 5) * 1500

\* completeness = (section_count / len(required_sections)) * 15
HealthCompleteness(sections) ==
    Cardinality({i \in DOMAIN RequiredSections : sections[RequiredSections[i]]}) * 3750

\* ResumeAnalysisService._calculate_health_score, in hundredths
CalculateHealthScore(ats_score, skill_count, verb_count, metric_count, sections) ==
    LET total_score == HealthAtsComponent(ats_score)
                       + HealthSkillComponent(skill_count)
                       + HealthContentComponent(verb_count, metric_count)
                       + HealthCompleteness(sections)
    IN  RoundDiv(total_score * 100, 750)

\* ResumeAnalysisService._get_health_status; score in hundredths
GetHealthStatus(score) ==
    IF score >= 8500 THEN "Excellent"
    ELSE IF score >= 7000 THEN "Good"
    ELSE IF score >= 5500 THEN "Fair"
    ELSE "Needs Improvement"

-----------------------------------------------------------------------------
(* skill_extractor.py *)

\* SkillExtractor._build_skill_database
BuildSkillDatabase(role_db, syn) ==
    UNION {{LowerStr(s) : s \in Range(role_db[r].skills)}
           \cup {LowerStr(s) : s \in Range(role_db[r].tools)}
           \cup {LowerStr(s) : s \in Range(role_db[r].soft_skills)} : r \in DOMAIN role_db}
    \cup UNION {{LowerStr(syn[i].primary)}
                \cup {LowerStr(v) : v \in Range(syn[i].variants)} : i \in DOMAIN syn}

\* SkillExtractor._build_skill_patterns: sorted(self.all_skills, key=len,
\* reverse=True) is a stable sort of the set's iteration order; a pattern
\* \b<skill>\b is kept as the skill it is compiled from
BuildSkillPatterns(all_skills, seed) ==
    StableSort(SetIterationOrder(all_skills, seed),
               LAMBDA x, y : StrLen(x) > StrLen(y))

\* the pattern \b<s>\b matches in t at atom position i
MatchesAt(s, t, i) ==
    LET j == i + Len(s) - 1
    IN  /\ OccursAt(s, t, i)
        /\ IF IsWord(s[1]) THEN i = 1 \/ ~IsWord(t[i - 1])
           ELSE i > 1 /\ IsWord(t[i - 1])
        /\ IF IsWord(s[Len(s)]) THEN j = Len(t) \/ ~IsWord(t[j + 1])
           ELSE j < Len(t) /\ IsWord(t[j + 1])

\* pattern.finditer(text): the positions of the non-overlapping matches, left
\* to right
FindIter(s, t) ==
    LET RECURSIVE Scan(_)
        Scan(i) == IF i + Len(s) - 1 > Len(t) THEN <<>>
                   ELSE IF MatchesAt(s, t, i) THEN <<i>> \o Scan(i + Len(s))
                   ELSE Scan(i + 1)
    IN  IF s = <<>> \/ s[1] \notin Range(t) THEN <<>> ELSE Scan(1)

\* _normalize_skill looking a skill up among the keys of the table only
NormalizeSkillKeysOnly(syn, skill) == LowerStr(skill)

\* SkillExtractor._normalize_skill: the first entry of the table, in table
\* order, that has the skill as its key or among its variants
NormalizeSkill(syn, skill) ==
    LET skill_lower == LowerStr(skill)
        hits == {i \in DOMAIN syn :
                    \/ skill_lower = syn[i].primary
                    \/ skill_lower \in {LowerStr(v) : v \in Range(syn[i].variants)}}
    IN  IF hits = {} THEN skill_lower
        ELSE syn[CHOOSE i \in hits : \A k \in hits : i <= k].primary

\* the character offset at which atom i starts
AtomStart(atoms, i) == StrLen(SubSeq(atoms, 1, i - 1))

\* the character at offset o of a text is whitespace
CharIsSpace(t, o) ==
    IF o < StrLen(t.atoms) THEN IsSpace(CharAt(Concat(t.atoms), o + 1))
    ELSE (o - StrLen(t.atoms)) % PadLen = 0

\* text[start:end].strip(), kept as the offsets of the slice that is left
SliceStrip(t, start, end) ==
    LET RECURSIVE Fwd(_)
        Fwd(o) == IF o < end /\ CharIsSpace(t, o) THEN Fwd(o + 1) ELSE o
        RECURSIVE Back(_)
        Back(o) == IF o > start /\ CharIsSpace(t, o - 1) THEN Back(o - 1) ELSE o
        lo == Fwd(start)
    IN  IF lo >= end THEN [lo |-> start, hi |-> start]
        ELSE [lo |-> lo, hi |-> Back(end)]

\* the context of a match of `len` atoms at atom i, `width` characters each way
ContextOf(t, i, len, width) ==
    SliceStrip(t, Max(0, AtomStart(t.atoms, i) - width),
                  Min(TextLen(t), AtomStart(t.atoms, i + len) + width))

\* `keyword in context.lower()` for a one-atom keyword
ContextContains(t, ctx, keyword) ==
    \E i \in 1..Len(t.atoms) :
        /\ \/ LowerAtom(t.atoms[i]) = keyword
           \/ AtomContains(LowerAtom(t.atoms[i]), keyword)
        /\ ctx.lo <= AtomStart(t.atoms, i)
        /\ AtomStart(t.atoms, i + 1) <= ctx.hi

SectionBoostKeywords == <<"skills", "technologies", "tools", "expertise">>

\* the matches of extract_skills in the order its two loops visit them
SkillMatchEvents(patterns, syn, t) ==
    LET \* a pattern can only match where its first atom is an atom of the text
        Events(text_lower, present) ==
            Flatten([p \in 1..Len(patterns) |->
                IF patterns[p][1] \notin present THEN <<>>
                ELSE SeqMap(LAMBDA i : [skill |-> NormalizeSkill(syn, patterns[p]),
                                        context |-> ContextOf(t, i, Len(patterns[p]), 50)],
                            FindIter(patterns[p], text_lower))])
        In(text_lower) == Events(text_lower, Range(text_lower))
    IN  In(LowerStr(t.atoms))

\* extract_skills storing the context of every match
ExtractSkillsEveryContext(patterns, syn, t) ==
    LET \* the entry of found_skills for a skill with the matches `mine`, of
        \* which the first three leave their contexts
        Entry(mine, contexts) ==
            [skill |-> mine[1].skill,
             count |-> Len(mine),
             contexts |-> contexts,
             confidence |->
                Min(Min(Len(mine) * 2, 10)
                    + (IF \E c \in DOMAIN contexts : \E w \in DOMAIN SectionBoostKeywords :
                             ContextContains(t, contexts[c], SectionBoostKeywords[w])
                       THEN 3 ELSE 0),
                    10)]
        Found(mine) == Entry(mine, SeqMap(LAMBDA e : e.context, mine))
        \* found_skills, in insertion order
        FoundSkills(events) ==
            SeqMap(LAMBDA k : Found(SelectSeq(events, LAMBDA e : e.skill = events[k].skill)),
                   SelectSeq([k \in 1..Len(events) |-> k],
                             LAMBDA k : \A h \in 1..(k - 1) :
                                           events[h].skill # events[k].skill))
        Result(sorted_skills) ==
            [skills |-> sorted_skills,
             skill_list |-> SeqMap(LAMBDA d : d.skill, sorted_skills),
             total_unique_skills |-> Len(sorted_skills),
             high_confidence_skills |->
                SeqMap(LAMBDA d : d.skill,
                       SelectSeq(sorted_skills, LAMBDA d : d.confidence > 7))]
    IN  Result(StableSort(FoundSkills(SkillMatchEvents(patterns, syn, t)),
                          LAMBDA x, y :
                              \/ x.confidence > y.confidence
                              \/ (x.confidence = y.confidence /\ x.count > y.count)))

\* SkillExtractor.extract_skills; confidence in tenths
ExtractSkills(patterns, syn, t) ==
    LET \* the entry of found_skills for a skill with the matches `mine`, of
        \* which the first three leave their contexts
        Entry(mine, contexts) ==
            [skill |-> mine[1].skill,
             count |-> Len(mine),
             contexts |-> contexts,
             confidence |->
                Min(Min(Len(mine) * 2, 10)
                    + (IF \E c \in DOMAIN contexts : \E w \in DOMAIN SectionBoostKeywords :
                             ContextContains(t, contexts[c], SectionBoostKeywords[w])
                       THEN 3 ELSE 0),
                    10)]
        Found(mine) == Entry(mine, SeqMap(LAMBDA e : e.context, Take(mine, 3)))
        \* found_skills, in insertion order
        FoundSkills(events) ==
            SeqMap(LAMBDA k : Found(SelectSeq(events, LAMBDA e : e.skill = events[k].skill)),
                   SelectSeq([k \in 1..Len(events) |-> k],
                             LAMBDA k : \A h \in 1..(k - 1) :
                                           events[h].skill # events[k].skill))
        Result(sorted_skills) ==
            [skills |-> sorted_skills,
             skill_list |-> SeqMap(LAMBDA d : d.skill, sorted_skills),
             total_unique_skills |-> Len(sorted_skills),
             high_confidence_skills |->
                SeqMap(LAMBDA d : d.skill,
                       SelectSeq(sorted_skills, LAMBDA d : d.confidence > 7))]
    IN  Result(StableSort(FoundSkills(SkillMatchEvents(patterns, syn, t)),
                          LAMBDA x, y :
                              \/ x.confidence > y.confidence
                              \/ (x.confidence = y.confidence /\ x.count > y.count)))

\* SkillExtractor.extract_action_verbs: the verbs it looks for
ActionVerbList ==
    <<"built", "developed", "designed", "implemented", "optimized", "analyzed",
      "created", "automated", "deployed", "improved", "engineered", "trained",
      "led", "managed", "coordinated", "established", "launched", "delivered",
      "architected", "scaled", "maintained", "integrated", "migrated",
      "streamlined", "reduced", "increased", "achieved", "collaborated",
      "spearheaded", "pioneered">>

\* the positions a scan visits: MatchLen(i) is the number of atoms a match at
\* atom i takes (0 when there is none); the scan resumes after each match
ScanAll(n, MatchLen(_)) ==
    LET cand == {i \in 1..n : MatchLen(i) > 0}
        RECURSIVE Scan(_)
        Scan(from) ==
            LET rest == {i \in cand : i >= from}
            IN  IF rest = {} THEN <<>>
                ELSE LET i == CHOOSE k \in rest : \A m \in rest : k <= m
                     IN  <<i>> \o Scan(i + MatchLen(i))
    IN  Scan(1)

\* the atom position after the whitespace atoms that start at i (\s*)
SkipSpaces(t, i) ==
    LET RECURSIVE Skip(_)
        Skip(k) == IF k <= Len(t) /\ IsSpace(t[k]) THEN Skip(k + 1) ELSE k
    IN  Skip(i)

\* the longest run of digits at the start and at the end of an atom
LeadingDigits(a) ==
    LET n == Cardinality({k \in 1..Len(a) : \A h \in 1..k : CharAt(a, h) \in Digits})
    IN  SubSeq(a, 1, n)
TrailingDigits(a) ==
    LET n == Cardinality({k \in 1..Len(a) : \A h \in k..Len(a) : CharAt(a, h) \in Digits})
    IN  SubSeq(a, Len(a) - n + 1, Len(a))

\* int(s) of a string of digits
DigitValue == [c \in Digits |-> CHOOSE v \in 0..9 : CharAt("0123456789", v + 1) = c]
ToInt(a) ==
    LET RECURSIVE Val(_, _)
        Val(k, acc) == IF k > Len(a) THEN acc
                       ELSE Val(k + 1, acc * 10 + DigitValue[CharAt(a, k)])
    IN  Val(1, 0)

\* SkillExtractor.extract_action_verbs
ExtractActionVerbs(t) ==
    LET text_lower == LowerStr(t.atoms)
        usage == [v \in 1..Len(ActionVerbList) |->
                     [verb |-> ActionVerbList[v],
                      count |-> Len(FindIter(<<ActionVerbList[v]>>, text_lower))]]
        verb_usage == SelectSeq(usage, LAMBDA u : u.count > 0)
    IN  StableSort(verb_usage, LAMBDA x, y : x.count > y.count)

\* The three patterns of extract_years_of_experience share the shape
\*   (\d+)\+?\s*years?  and a word before or after it.

\* "(\d+)\+?\s*year" read from atom i on: [digits, next], next being the atom
\* that holds "year..." (i itself when digits and "year" share one atom);
\* digits = "" when there is no match.  `led` says that something precedes the
\* digits in the pattern, so that they must start their atom; otherwise the
\* match may start inside the atom, at the digits that end it.
YearsAt(t, i, led) ==
    LET a == t[i]
        lead == LeadingDigits(a)
        rest == SubSeq(a, Len(lead) + 1, Len(a))
        yearSuffix == IF EndsWith(a, "years") THEN 5
                      ELSE IF EndsWith(a, "year") THEN 4 ELSE 0
        glued == TrailingDigits(SubSeq(a, 1, Len(a) - yearSuffix))
        k == SkipSpaces(t, IF i + 1 <= Len(t) /\ t[i + 1] = "+" THEN i + 2 ELSE i + 1)
    IN  IF led /\ lead # "" /\ StartsWith(rest, "year")
        THEN [digits |-> lead, next |-> i]
        ELSE IF ~led /\ yearSuffix > 0 /\ glued # ""
        THEN [digits |-> glued, next |-> i]
        ELSE IF (IF led THEN lead # "" /\ lead = a ELSE TrailingDigits(a) # "")
                /\ k <= Len(t) /\ StartsWith(t[k], "year")
        THEN [digits |-> IF led THEN lead ELSE TrailingDigits(a), next |-> k]
        ELSE [digits |-> "", next |-> i]

\* "\s+" and, when allowed, "(?:of\s+)?" from atom k on: the atom positions at
\* which the next part of the pattern may start
AfterSpaces(t, k, optional_of) ==
    LET s == SkipSpaces(t, k)
    IN  IF s = k THEN {}
        ELSE {s} \cup (IF optional_of /\ s <= Len(t) /\ t[s] = "of"
                          /\ SkipSpaces(t, s + 1) > s + 1
                       THEN {SkipSpaces(t, s + 1)} ELSE {})

\* SkillExtractor.extract_years_of_experience
ExtractYearsOfExperience(t) ==
    LET low == LowerStr(t.atoms)
        n == Len(low)
        NoYears == [len |-> 0, years |-> 0]
        \* (\d+)\+?\s*years?\s+(?:of\s+)?<a word of words>, the number being y
        BeforeOf(i, words, y, ends) ==
            IF y.digits # "" /\ (y.next = i \/ low[y.next] \in {"year", "years"})
               /\ ends # {}
            THEN [len |-> (CHOOSE e \in ends : TRUE) - i + 1, years |-> ToInt(y.digits)]
            ELSE NoYears
        BeforeAt(i, words, optional_of, y) ==
            BeforeOf(i, words, y,
                     {e \in AfterSpaces(low, y.next + 1, optional_of) :
                         e <= n /\ \E w \in words : StartsWith(low[e], w)})
        Before(i, words, optional_of) ==
            BeforeAt(i, words, optional_of, YearsAt(low, i, FALSE))
        \* experience\s+(?:of\s+)?(\d+)\+?\s*years?, the number being y
        AfterOf(i, y) == [len |-> y.next - i + 1, years |-> ToInt(y.digits)]
        AfterAt(i, starts) ==
            IF EndsWith(low[i], "experience") /\ starts # {}
            THEN AfterOf(i, YearsAt(low, CHOOSE s \in starts : TRUE, TRUE))
            ELSE NoYears
        After(i) ==
            AfterAt(i, {s \in AfterSpaces(low, i + 1, TRUE) :
                           s <= n /\ YearsAt(low, s, TRUE).digits # ""})
        Found(M(_)) == SeqMap(LAMBDA i : M(i).years, ScanAll(n, LAMBDA i : M(i).len))
        Stats(years) ==
            IF years # <<>>
            THEN [max_years |-> MaxOfSet(Range(years)),
                  min_years |-> MinOfSet(Range(years)),
                  avg_years |-> SumSeq(years) \div Len(years)]
            ELSE [max_years |-> 0, min_years |-> 0, avg_years |-> 0]
    IN  Stats(Found(LAMBDA i : Before(i, {"experience"}, TRUE))
              \o Found(After)
              \o Found(LAMBDA i : Before(i, {"working", "in"}, FALSE)))

\* The groups of the six patterns of extract_certifications, lower-cased, in
\* the order the alternation tries them.
\*   whole: the group must end where its last atom ends (whitespace follows)
\*   tail:  what the pattern asks for after the group
CertPatterns ==
    <<[groups |-> <<(<<"aws">>), <<"azure">>, <<"gcp">>, <<"google", " ", "cloud">>>>,
       whole |-> TRUE, tail |-> "certified_word"],
      [groups |-> <<(<<"pmp">>), <<"cissp">>, <<"ceh">>, <<"oscp">>,
                    <<"security", "+">>, <<"network", "+">>, <<"a", "+">>>>,
       whole |-> FALSE, tail |-> "none"],
      [groups |-> <<(<<"cpa">>), <<"cfa">>, <<"cma">>, <<"shrm", "-", "cp">>,
                    <<"shrm", "-", "scp">>, <<"phr">>, <<"sphr">>>>,
       whole |-> FALSE, tail |-> "none"],
      [groups |-> <<(<<"scrum", " ", "master">>), <<"product", " ", "owner">>,
                    <<"safe">>, <<"prince2">>>>,
       whole |-> FALSE, tail |-> "none"],
      [groups |-> <<(<<"six", " ", "sigma">>), <<"black", " ", "belt">>,
                    <<"green", " ", "belt">>>>,
       whole |-> FALSE, tail |-> "none"],
      [groups |-> <<(<<"certified">>), <<"certification">>>>,
       whole |-> TRUE, tail |-> "word"]>>

\* the group g of a certification pattern matches at atom i of low (the
\* lower-cased text): \b, the atoms of g, the last one possibly only the start
\* of its atom
CertGroupAt(low, i, g, whole) ==
    LET n == Len(g)
    IN  /\ i + n - 1 <= Len(low)
        /\ IsWord(low[i])
        /\ \A k \in 1..(n - 1) : low[i + k - 1] = g[k]
        /\ IF whole \/ ~IsWord(g[n]) THEN low[i + n - 1] = g[n]
           ELSE StartsWith(low[i + n - 1], g[n])

\* the atom after the last atom of the tail of a certification pattern that
\* starts at atom j (0 when the tail does not match)
CertTailEnd(low, j, tail) ==
    LET s == SkipSpaces(low, j)
        w == SkipSpaces(low, s + 1)
    IN  CASE tail = "none" -> j
          [] tail = "word" ->
                IF s > j /\ s <= Len(low) /\ IsWord(low[s]) THEN s + 1 ELSE 0
          [] tail = "certified_word" ->
                IF s > j /\ s <= Len(low) /\ low[s] = "certified"
                   /\ w > s + 1 /\ w <= Len(low) /\ IsWord(low[w])
                THEN w + 1 ELSE 0

\* SkillExtractor.extract_certifications
ExtractCertifications(t) ==
    LET atoms == t.atoms \o PadAtoms(t, 1)
        low == LowerStr(atoms)
        \* the first alternative of pattern p that matches at atom i, or 0
        Alt(p, i) ==
            LET First(ok) == IF ok = {} THEN 0 ELSE MinOfSet(ok)
            IN  First({a \in DOMAIN p.groups :
                          /\ CertGroupAt(low, i, p.groups[a], p.whole)
                          /\ CertTailEnd(low, i + Len(p.groups[a]), p.tail) > 0})
        LenOf(p, i, a) ==
            IF a = 0 THEN 0 ELSE CertTailEnd(low, i + Len(p.groups[a]), p.tail) - i
        MatchLen(p, i) == LenOf(p, i, Alt(p, i))
        \* the text the group g matched at i, in the case the resume has it
        GroupOf(i, g) ==
            [k \in 1..Len(g) |->
                IF k < Len(g) THEN atoms[i + k - 1]
                ELSE SubSeq(atoms[i + Len(g) - 1], 1, Len(g[Len(g)]))]
        Group(p, i) == GroupOf(i, p.groups[Alt(p, i)])
        certifications ==
            UNION {{Group(CertPatterns[p], i) :
                       i \in Range(ScanAll(Len(low), LAMBDA i : MatchLen(CertPatterns[p], i)))}
                   : p \in DOMAIN CertPatterns}
    IN  SortedStrs(certifications)

\* The patterns of extract_metrics and extract_education are read character by
\* character on the text as one string; positions are 1-based and a length of
\* 0 means "no match".

\* the atoms of a string: word runs and single other characters
Atomize(a) ==
    LET RECURSIVE Split(_, _)
        \* k: next character; w: the word run collected so far
        Split(k, w) ==
            IF k > Len(a) THEN (IF w = "" THEN <<>> ELSE <<w>>)
            ELSE IF CharAt(a, k) \in WordChars THEN Split(k + 1, w \o CharAt(a, k))
            ELSE (IF w = "" THEN <<>> ELSE <<w>>) \o <<CharAt(a, k)>> \o Split(k + 1, "")
    IN  Split(1, "")

\* the length of the run of characters of `chars` that starts at p
RunLen(S, p, chars) ==
    LET RECURSIVE Run(_)
        Run(k) == IF k <= Len(S) /\ CharAt(S, k) \in chars THEN Run(k + 1) ELSE k
    IN  Run(p) - p

\* the literal w is at p
LitAt(S, p, w) == p >= 1 /\ p + Len(w) - 1 <= Len(S) /\ SubSeq(S, p, p + Len(w) - 1) = w

\* the length of the first of the alternatives that is at p
FirstAlt(S, p, alts) ==
    LET ok == {a \in DOMAIN alts : LitAt(S, p, alts[a])}
    IN  IF ok = {} THEN 0 ELSE Len(alts[CHOOSE a \in ok : \A b \in ok : a <= b])

\* \d+(?:\.\d+)?% at p
NumPctLen(S, p) ==
    LET d == RunLen(S, p, Digits)
        f == RunLen(S, p + d + 1, Digits)
    IN  IF d = 0 THEN 0
        ELSE IF LitAt(S, p + d, ".") /\ f > 0 /\ LitAt(S, p + d + 1 + f, "%")
             THEN d + 1 + f + 1
        ELSE IF LitAt(S, p + d, "%") THEN d + 1
        ELSE 0

\* \d+(?:,\d{3})* at p: the lengths it can take, one per number of groups
NumGroupLens(S, p) ==
    LET d == RunLen(S, p, Digits)
        RECURSIVE Groups(_)
        Groups(q) == IF LitAt(S, q, ",") /\ RunLen(S, q + 1, Digits) >= 3
                     THEN {q + 4 - p} \cup Groups(q + 4) ELSE {}
    IN  IF d = 0 THEN {} ELSE {d} \cup Groups(p + d)

\* the five patterns of extract_metrics: the length of the match at p
MetricMatchLen(S, p, pattern) ==
    LET sp(q) == RunLen(S, q, SpaceAtoms)
    IN  CASE pattern = 1 ->
               \* (\d+(?:\.\d+)?%)\s+(?:increase|decrease|improvement|reduction|growth)
               LET n == NumPctLen(S, p)
                   w == FirstAlt(S, p + n + sp(p + n),
                                 <<"increase", "decrease", "improvement", "reduction",
                                   "growth">>)
               IN  IF n > 0 /\ sp(p + n) > 0 /\ w > 0 THEN n + sp(p + n) + w ELSE 0
          [] pattern = 2 ->
               \* (?:increased|decreased|improved|reduced|grew)\s+(?:by\s+)?(\d+(?:\.\d+)?%)
               LET w == FirstAlt(S, p, <<"increased", "decreased", "improved", "reduced",
                                         "grew">>)
                   a == p + w + sp(p + w)
                   b == a + 2 + sp(a + 2)
               IN  IF w = 0 \/ sp(p + w) = 0 THEN 0
                   ELSE IF LitAt(S, a, "by") /\ sp(a + 2) > 0 /\ NumPctLen(S, b) > 0
                        THEN b + NumPctLen(S, b) - p
                   ELSE IF NumPctLen(S, a) > 0 THEN a + NumPctLen(S, a) - p
                   ELSE 0
          [] pattern = 3 ->
               \* \$(\d+(?:,\d{3})*(?:\.\d+)?)\s*(?:million|billion|thousand|M|B|K)?
               LET lens == NumGroupLens(S, p + 1)
                   a == p + 1 + MaxOfSet(lens)
                   f == RunLen(S, a + 1, Digits)
                   b == IF LitAt(S, a, ".") /\ f > 0 THEN a + 1 + f ELSE a
                   c == b + sp(b)
                   u == FirstAlt(S, c, <<"million", "billion", "thousand", "m", "b", "k">>)
               IN  IF LitAt(S, p, "$") /\ lens # {} THEN c + u - p ELSE 0
          [] pattern = 4 ->
               \* (\d+(?:,\d{3})*)\s+(?:users|customers|clients|projects|features|products)
               LET ok == {n \in NumGroupLens(S, p) :
                             /\ sp(p + n) > 0
                             /\ FirstAlt(S, p + n + sp(p + n),
                                         <<"users", "customers", "clients", "projects",
                                           "features", "products">>) > 0}
                   n == MaxOfSet(ok)
               IN  IF ok = {} THEN 0
                   ELSE n + sp(p + n) + FirstAlt(S, p + n + sp(p + n),
                                                 <<"users", "customers", "clients",
                                                   "projects", "features", "products">>)
          [] pattern = 5 ->
               \* (?:from|to)\s+(\d+(?:,\d{3})*)
               LET w == FirstAlt(S, p, <<"from", "to">>)
                   a == p + w + sp(p + w)
               IN  IF w > 0 /\ sp(p + w) > 0 /\ NumGroupLens(S, a) # {}
                   THEN a + MaxOfSet(NumGroupLens(S, a)) - p
                   ELSE 0

\* SkillExtractor.extract_metrics
ExtractMetrics(t) ==
    LET S == Concat(t.atoms \o PadAtoms(t, 1))
        L == Concat(LowerStr(t.atoms \o PadAtoms(t, 1)))
        \* the match of n characters at p
        Item(p, n) ==
            [metric |-> Atomize(SubSeq(S, p, p + n - 1)),
             context |-> SliceStrip(t, Max(0, p - 1 - 100),
                                       Min(TextLen(t), p - 1 + n + 100))]
        Matches(pattern) ==
            SeqMap(LAMBDA p : Item(p, MetricMatchLen(L, p, pattern)),
                   ScanAll(Len(L), LAMBDA p : MetricMatchLen(L, p, pattern)))
    IN  Take(Flatten([pattern \in 1..5 |-> Matches(pattern)]), 10)

\* The four degree patterns of extract_education, lower-cased: the degree
\* alternatives in the order the alternation tries them, the field words that
\* may stand between the degree and "in", and whether "of" and a field are
\* allowed at all.
DegreePatterns ==
    <<[degrees |-> <<"bachelor", "bs", "ba", "b.s.", "b.a.">>,
       fields |-> <<"science", "arts">>, of_field |-> TRUE],
      [degrees |-> <<"master", "ms", "ma", "m.s.", "m.a.", "mba">>,
       fields |-> <<"science", "arts", "business">>, of_field |-> TRUE],
      \* Ph\.?D\.? spelled out
      [degrees |-> <<"ph.d.", "ph.d", "phd.", "phd", "doctorate">>,
       fields |-> <<>>, of_field |-> FALSE],
      [degrees |-> <<"associate", "as", "aa">>,
       fields |-> <<"science", "arts">>, of_field |-> TRUE]>>

LetterChars == LowerSet \cup UpperSet

\* "\s+(?:of\s+)?(?:Science|Arts)?\s+in" (or "\s+in") from q on: the position
\* after "in", or 0
DegreeInEnd(L, q, pat) ==
    LET sp(x) == RunLen(L, x, SpaceAtoms)
        a == q + sp(q)
        \* after an optional "of" and its whitespace
        b == IF LitAt(L, a, "of") /\ sp(a + 2) > 0 THEN a + 2 + sp(a + 2) ELSE a
        WithField(x) ==
            LET f == FirstAlt(L, x, pat.fields)
                y == x + f + sp(x + f)
            IN  IF f > 0 /\ sp(x + f) > 0 /\ LitAt(L, y, "in") THEN y + 2 ELSE 0
    IN  IF sp(q) = 0 THEN 0
        ELSE IF ~pat.of_field THEN (IF LitAt(L, a, "in") THEN a + 2 ELSE 0)
        ELSE IF b > a /\ WithField(b) > 0 THEN WithField(b)
        ELSE IF b > a /\ sp(a + 2) >= 2 /\ LitAt(L, b, "in") THEN b + 2
        ELSE IF WithField(a) > 0 THEN WithField(a)
        ELSE IF sp(q) >= 2 /\ LitAt(L, a, "in") THEN a + 2
        ELSE 0

\* a match of a degree pattern at p: [len, degree, lo, hi], the major being the
\* characters lo+1..hi of the string (len = 0 when there is no match)
NoDegreeMatch == [len |-> 0, degree |-> 0, lo |-> 0, hi |-> 0]

\* the match at p whose degree takes deg_len characters and whose "in" ends
\* before r: "\s+([A-Za-z\s]+)" from r on
DegreeMajor(L, p, deg_len, r) ==
    LET s == RunLen(L, r, SpaceAtoms)
        run == RunLen(L, r, LetterChars \cup SpaceAtoms)
    IN  IF s >= 1 /\ run > s
        THEN [len |-> r + run - p, degree |-> deg_len,
              lo |-> r + s - 1, hi |-> r + run - 1]
        ELSE IF s >= 2
             THEN [len |-> r + run - p, degree |-> deg_len,
                   lo |-> r + s - 2, hi |-> r + s - 1]
        ELSE NoDegreeMatch

DegreeMatch(L, p, pat) ==
    LET InEnd(d) == DegreeInEnd(L, p + Len(pat.degrees[d]), pat)
        \* the first alternative, among those in ok, decides
        Pick(ok) ==
            IF ok = {} THEN NoDegreeMatch
            ELSE DegreeMajor(L, p, Len(pat.degrees[MinOfSet(ok)]), InEnd(MinOfSet(ok)))
    IN  IF p > 1 /\ CharAt(L, p - 1) \in WordChars THEN NoDegreeMatch
        ELSE Pick({d \in DOMAIN pat.degrees :
                      LitAt(L, p, pat.degrees[d]) /\ InEnd(d) > 0})

\* SkillExtractor.extract_education; a major is kept as the offsets of the
\* stripped slice of the text it is
ExtractEducation(t) ==
    LET S == Concat(t.atoms \o PadAtoms(t, 1))
        L == Concat(LowerStr(t.atoms \o PadAtoms(t, 1)))
        \* the entry of match m at p; a major that reaches the filler tail runs
        \* to the end of the text
        Entry(p, m) ==
            [degree |-> Atomize(SubSeq(S, p, p + m.degree - 1)),
             major |-> SliceStrip(t, m.lo,
                                  IF m.hi = Len(L) /\ t.pad > 0 THEN TextLen(t)
                                  ELSE m.hi)]
        Matches(pat) ==
            SeqMap(LAMBDA p : Entry(p, DegreeMatch(L, p, pat)),
                   ScanAll(Len(L), LAMBDA p : DegreeMatch(L, p, pat).len))
    IN  Flatten([k \in 1..Len(DegreePatterns) |-> Matches(DegreePatterns[k])])

-----------------------------------------------------------------------------
(* jd_matcher.py *)

\* Optional values: None, or a value
None    == <<>>
Some(v) == <<v>>

\* all the atoms of a text, its filler tail included
FullAtoms(t) == t.atoms \o PadAtoms(t, t.pad)

\* len(text.strip())
StripLen(t) ==
    LET a == FullAtoms(t)
        solid == {i \in DOMAIN a : ~IsSpace(a[i])}
    IN  IF solid = {} THEN 0
        ELSE StrLen(SubSeq(a, MinOfSet(solid), MaxOfSet(solid)))

\* JDMatcher.stop_words
StopWords ==
    {"the", "a", "an", "and", "or", "but", "in", "on", "at", "to", "for",
     "of", "with", "by", "from", "as", "is", "was", "are", "were", "be",
     "been", "being", "have", "has", "had", "do", "does", "did", "will",
     "would", "should", "could", "may", "might", "must", "can", "this",
     "that", "these", "those", "i", "you", "he", "she", "it", "we", "they",
     "who", "what", "where", "when", "why", "how", "all", "each", "every",
     "both", "few", "more", "most", "other", "some", "such", "than", "too",
     "very", "our", "your", "their"}

\* the maximal runs of letters of a string
LetterRuns(a) ==
    {SubSeq(a, p[1], p[2]) :
        p \in {q \in (1..Len(a)) \X (1..Len(a)) :
                  /\ q[1] <= q[2]
                  /\ \A k \in q[1]..q[2] : CharAt(a, k) \in LetterChars
                  /\ (q[1] = 1 \/ CharAt(a, q[1] - 1) \notin LetterChars)
                  /\ (q[2] = Len(a) \/ CharAt(a, q[2] + 1) \notin LetterChars)}}

\* JDMatcher._extract_keywords: re.sub(r'[^a-zA-Z\s]', ' ', text.lower())
\* leaves the runs of letters as the words of split(); a keyword is a str of
\* one atom
ExtractKeywords(t) ==
    LET words == UNION {LetterRuns(LowerAtom(a)) :
                           a \in {b \in Range(t.atoms) : IsWord(b)}}
                 \cup (IF t.pad > 0 THEN {PadWord} ELSE {})
    IN  {<<word>> : word \in {w \in words : Len(w) > 3 /\ w \notin StopWords}}

\* the skill_patterns of _extract_jd_skills: the alternatives of the literal
\* head, then the optional characters, then \s*([^\n]+)
JdSkillPatterns ==
    <<[heads |-> <<"required skill">>, opt |-> <<"s", ":">>],
      [heads |-> <<"qualification">>, opt |-> <<"s", ":">>],
      [heads |-> <<"experience with", "experience in">>, opt |-> <<":">>],
      [heads |-> <<"proficient with", "proficient in">>, opt |-> <<":">>],
      [heads |-> <<"knowledge of">>, opt |-> <<":">>]>>

\* the position after the head and the optional characters of a pattern
\* matched at p, or 0 when the head is not at p
JdHeadEnd(J, p, pat) ==
    LET h == FirstAlt(J, p, pat.heads)
        RECURSIVE Opt(_, _)
        Opt(k, i) == IF i > Len(pat.opt) THEN k
                     ELSE Opt(IF LitAt(J, k, pat.opt[i]) THEN k + 1 ELSE k, i + 1)
    IN  IF h = 0 THEN 0 ELSE Opt(p + h, 1)

\* the last position of the line that position c is on
LineEnd(J, c) ==
    LET nl == {k \in c..Len(J) : CharAt(J, k) = "\n"}
    IN  IF nl = {} THEN Len(J) ELSE MinOfSet(nl) - 1

\* the first position of the line that position c is on
LineStart(J, c) ==
    LET nl == {k \in 1..(c - 1) : CharAt(J, k) = "\n"}
    IN  IF nl = {} THEN 1 ELSE MaxOfSet(nl) + 1

\* finditer: of the candidate start positions, the ones a left-to-right scan
\* takes when a match at p ends at EndOf(p)
NonOverlapping(cand, EndOf(_)) ==
    LET RECURSIVE Scan(_)
        Scan(from) ==
            LET rest == {p \in cand : p >= from}
            IN  IF rest = {} THEN <<>>
                ELSE LET p == MinOfSet(rest)
                     IN  <<p>> \o Scan(EndOf(p) + 1)
    IN  Scan(1)

\* group(1) of the matches of one pattern in jd_lower.  \s* runs over all the
\* whitespace after the head, newlines too, and [^\n]+ takes the rest of the
\* line it stops on.  When only whitespace follows the head, what the group
\* can still take is blank or one of the optional characters, which yields no
\* skill; such matches are left out.
JdSkillGroups(J, pat) ==
    LET GroupStart(p) == JdHeadEnd(J, p, pat)
                         + RunLen(J, JdHeadEnd(J, p, pat), SpaceAtoms)
        cand == {p \in 1..Len(J) :
                    JdHeadEnd(J, p, pat) > 0 /\ GroupStart(p) <= Len(J)}
        EndOf(p) == LineEnd(J, GroupStart(p))
    IN  SeqMap(LAMBDA p : SubSeq(J, GroupStart(p), EndOf(p)),
               NonOverlapping(cand, EndOf))

\* re.split(r'[,;...\n]', skill_text) with each piece stripped: the pieces
\* that are not blank.  (The class also lists the characters of a mis-encoded
\* bullet, which are outside the alphabet of the model.)
SplitSeparators == {",", ";", "\n"}

SplitAndStrip(g) ==
    LET Sep(k) == CharAt(g, k) \in SplitSeparators
        Blank(k) == CharAt(g, k) \in SpaceAtoms
    IN  {SubSeq(g, p[1], p[2]) :
            p \in {q \in (1..Len(g)) \X (1..Len(g)) :
                      /\ q[1] <= q[2]
                      /\ ~Blank(q[1]) /\ ~Blank(q[2])
                      /\ \A k \in q[1]..q[2] : ~Sep(k)
                      /\ \E b \in 0..(q[1] - 1) :
                            /\ (b = 0 \/ Sep(b))
                            /\ \A k \in (b + 1)..(q[1] - 1) : Blank(k)
                      /\ \E e \in (q[2] + 1)..(Len(g) + 1) :
                            /\ (e = Len(g) + 1 \/ Sep(e))
                            /\ \A k \in (q[2] + 1)..(e - 1) : Blank(k)}}

\* the tech_keywords of _extract_jd_skills
TechKeywords ==
    <<(<<"python">>), <<"java">>, <<"javascript">>, <<"sql">>, <<"aws">>,
      <<"azure">>, <<"gcp">>, <<"docker">>, <<"kubernetes">>, <<"react">>,
      <<"angular">>, <<"node">>, <<"git">>, <<"machine", " ", "learning">>,
      <<"data", " ", "science">>, <<"analytics">>, <<"tableau">>,
      <<"power", " ", "bi">>, <<"excel">>, <<"agile">>, <<"scrum">>, <<"jira">>>>

\* JDMatcher._extract_jd_skills
ExtractJdSkills(t) ==
    LET jd_lower == LowerText(t)
        J == Concat(FullAtoms(jd_lower))
        listed == UNION {UNION {SplitAndStrip(g) : g \in Range(JdSkillGroups(J, JdSkillPatterns[i]))} :
                            i \in DOMAIN JdSkillPatterns}
    IN  {Atomize(skill) : skill \in {s \in listed : Len(s) > 2 /\ Len(s) < 50}}
        \cup {kw \in Range(TechKeywords) : TextContains(jd_lower, kw)}

\* _calculate_match_score giving 0 for an empty total
CalculateMatchScoreEmptyZero(matched, total) ==
    IF total = {} THEN Frac(0, 1)
    ELSE Frac(Cardinality(matched), Cardinality(total))

\* JDMatcher._calculate_match_score, as a fraction of 100
CalculateMatchScore(matched, total) ==
    IF total = {} THEN Frac(1, 1)
    ELSE Frac(Cardinality(matched), Cardinality(total))

\* the requirements of _analyze_section_alignment, in dict order
AlignmentRequirements ==
    <<[req_type |-> "experience",
       keywords |-> <<(<<"years", " ", "of", " ", "experience">>),
                      <<"experience", " ", "in">>, <<"experience", " ", "with">>>>],
      [req_type |-> "education",
       keywords |-> <<(<<"degree", " ", "in">>), <<"bachelor">>, <<"master">>,
                      <<"phd">>>>],
      [req_type |-> "certifications",
       keywords |-> <<(<<"certified">>), <<"certification">>, <<"license">>>>],
      [req_type |-> "leadership",
       keywords |-> <<(<<"lead">>), <<"manage">>, <<"supervise">>, <<"mentor">>>>],
      [req_type |-> "projects",
       keywords |-> <<(<<"project">>), <<"portfolio">>, <<"built">>,
                      <<"developed">>>>]>>

\* any(kw in text for kw in keywords)
ContainsAny(t, keywords) == \E i \in DOMAIN keywords : TextContains(t, keywords[i])

\* JDMatcher._analyze_section_alignment: the entries of the dict in
\* insertion order
AnalyzeSectionAlignment(resume_text, jd_text) ==
    LET jd_lower == LowerText(jd_text)
        resume_lower == LowerText(resume_text)
        Entry(req) ==
            LET resume_has == ContainsAny(resume_lower, req.keywords)
            IN  [req_type |-> req.req_type,
                 required |-> TRUE,
                 present_in_resume |-> resume_has,
                 status |-> IF resume_has THEN "Aligned" ELSE "Missing"]
    IN  SeqMap(Entry, SelectSeq(AlignmentRequirements,
                                LAMBDA req : ContainsAny(jd_lower, req.keywords)))

MustHavePatterns ==
    <<"required", "must have", "must be", "essential", "mandatory", "critical",
      "minimum">>

NicePatterns ==
    <<"preferred", "nice to have", "bonus", "plus", "desired", "advantageous",
      "beneficial">>

\* `needle in hay` for two strings of characters
Within(hay, needle) ==
    \E k \in 1..(Len(hay) - Len(needle) + 1) : SubSeq(hay, k, k + Len(needle) - 1) = needle

\* the reach of .{0,100} on either side of a skill
ContextReach == 100

\* the matches of r'.{0,100}' + re.escape(skill) + r'.{0,100}' in jd_lower.
\* A match starts as far left of the first occurrence still ahead as the
\* line, the previous match and the reach allow, holds the last occurrence
\* that its first part can reach, and runs on to the end of the line or of
\* the reach.
SkillContexts(J, skill) ==
    LET n == Len(skill)
        occ == {q \in 1..(Len(J) - n + 1) : SubSeq(J, q, q + n - 1) = skill}
        RECURSIVE Scan(_)
        Scan(from) ==
            LET ahead == {q \in occ : q >= from}
            IN  IF ahead = {} THEN <<>>
                ELSE LET q0 == MinOfSet(ahead)
                         p == Max(Max(from, LineStart(J, q0)), q0 - ContextReach)
                         q == MaxOfSet({r \in ahead : r <= p + ContextReach
                                                      /\ r <= LineEnd(J, q0)})
                         e == Min(LineEnd(J, q), q + n - 1 + ContextReach)
                     IN  <<SubSeq(J, p, e)>> \o Scan(e + 1)
    IN  Scan(1)

\* any(indicator in context for indicator in patterns)
AnyIndicator(context, patterns) ==
    \E i \in DOMAIN patterns : Within(context, patterns[i])

\* the loop over the matches of one skill in _categorize_requirements: the
\* flags is_must_have and is_nice when the loop ends or breaks
RECURSIVE ScanContexts(_, _, _)
ScanContexts(contexts, k, is_nice) ==
    IF k > Len(contexts) THEN [is_must_have |-> FALSE, is_nice |-> is_nice]
    ELSE IF AnyIndicator(contexts[k], MustHavePatterns)
    THEN [is_must_have |-> TRUE, is_nice |-> is_nice]
    ELSE ScanContexts(contexts, k + 1,
                      is_nice \/ AnyIndicator(contexts[k], NicePatterns))

\* _categorize_requirements testing the nice-to-have indicators first
CategorizeRequirementsNiceFirst(jd_text, missing_skills) ==
    LET J == Concat(FullAtoms(LowerText(jd_text)))
        IsNice(skill) ==
            \E c \in Range(SkillContexts(J, Concat(skill))) :
                AnyIndicator(c, NicePatterns)
        IsMust(skill) ==
            \E c \in Range(SkillContexts(J, Concat(skill))) :
                AnyIndicator(c, MustHavePatterns)
        nice_to_have == {skill \in missing_skills : IsNice(skill) \/ ~IsMust(skill)}
    IN  [must_have |-> missing_skills \ nice_to_have, nice_to_have |-> nice_to_have]

\* JDMatcher._categorize_requirements
CategorizeRequirements(jd_text, missing_skills) ==
    LET J == Concat(FullAtoms(LowerText(jd_text)))
        Flags(skill) == ScanContexts(SkillContexts(J, Concat(skill)), 1, FALSE)
        must_have == {skill \in missing_skills : Flags(skill).is_must_have}
        nice == {skill \in missing_skills :
                    ~Flags(skill).is_must_have /\ Flags(skill).is_nice}
        default == {skill \in missing_skills :
                       ~Flags(skill).is_must_have /\ ~Flags(skill).is_nice}
    IN  [must_have |-> must_have, nice_to_have |-> nice \cup default]

\* score >= threshold for a score that is 100 times the fraction f
ScoreAtLeast(f, threshold) == 100 * f.n >= threshold * f.d

\* JDMatcher._generate_recommendations.  A message is its kind followed by
\* what is formatted into it.
GenerateRecommendations(overall_score, skill_missing, keyword_missing, section_alignment, seed) ==
    LET assessment ==
            IF ScoreAtLeast(overall_score, 80) THEN <<"excellent_match">>
            ELSE IF ScoreAtLeast(overall_score, 60) THEN <<"good_match">>
            ELSE IF ScoreAtLeast(overall_score, 40) THEN <<"moderate_match">>
            ELSE <<"low_match">>
        \* top_missing = list(skill_missing)[:5]
        top_missing == Take(SetIterationOrder(skill_missing, seed), 5)
        gaps == SelectSeq(section_alignment,
                          LAMBDA data : data.required /\ ~data.present_in_resume)
        recommendations ==
            <<assessment>>
            \o (IF skill_missing # {} THEN <<(<<"develop_skills", top_missing>>)>>
                ELSE <<>>)
            \o SeqMap(LAMBDA data : <<"add_section", data.req_type>>, gaps)
            \o (IF keyword_missing # {} THEN <<(<<"incorporate_keywords">>)>> ELSE <<>>)
            \o <<(<<"tailor_resume">>)>>
    IN  Take(recommendations, 8)

\* JDMatcher._get_match_grade
GetMatchGrade(score) ==
    IF ScoreAtLeast(score, 90) THEN "A+ (Excellent Match)"
    ELSE IF ScoreAtLeast(score, 80) THEN "A (Great Match)"
    ELSE IF ScoreAtLeast(score, 70) THEN "B (Good Match)"
    ELSE IF ScoreAtLeast(score, 60) THEN "C (Fair Match)"
    ELSE IF ScoreAtLeast(score, 50) THEN "D (Weak Match)"
    ELSE "F (Poor Match)"

\* the culture_keywords of generate_tailored_resume_tips, in dict order
CultureKeywords ==
    <<(<<"innovative">>), <<"collaborative">>, <<"fast", "-", "paced">>,
      <<"data", "-", "driven">>, <<"customer", "-", "focused">>>>

\* JDMatcher.generate_tailored_resume_tips
GenerateTailoredResumeTips(jd_text, resume_text) ==
    LET jd_lower == LowerText(jd_text)
        tips ==
            SeqMap(LAMBDA keyword : <<"company_values", keyword>>,
                   SelectSeq(CultureKeywords, LAMBDA keyword : TextContains(jd_lower, keyword)))
            \o (IF ContainsAny(jd_lower, <<(<<"senior">>), <<"lead">>, <<"principal">>>>)
                THEN <<(<<"senior_role">>)>>
                ELSE IF ContainsAny(jd_lower, <<(<<"junior">>), <<"entry">>, <<"associate">>>>)
                THEN <<(<<"entry_role">>)>>
                ELSE <<>>)
    IN  Take(tips, 5)

\* the value analyze_jd_match returns when there is no usable job description
NoJdSentinel ==
    [match_score |-> None,
     analysis |-> "No job description provided",
     recommendations |-> <<>>]

\* the test of analyze_jd_match with the length taken before trimming
JdUnusableUntrimmed(jd_text) ==
    \/ jd_text = None
    \/ TextLen(jd_text[1]) < 30

\* `not jd_text or len(jd_text.strip()) < 30`; jd_text is None or Some(text)
JdUnusable(jd_text) ==
    \/ jd_text = None
    \/ TextLen(jd_text[1]) = 0
    \/ StripLen(jd_text[1]) < 30

\* JDMatcher.analyze_jd_match; match_score and breakdown in hundredths
AnalyzeJdMatch(resume_text, jd_text, extracted_skills, seed) ==
    LET \* the matching and missing keywords and skills
        Compare(resume_keywords, jd_keywords, jd_required_skills) ==
            [jd_keywords |-> jd_keywords,
             jd_required_skills |-> jd_required_skills,
             keyword_matches |-> resume_keywords \cap jd_keywords,
             keyword_missing |-> jd_keywords \ resume_keywords,
             skill_matches |-> Range(extracted_skills) \cap jd_required_skills,
             skill_missing |-> jd_required_skills \ Range(extracted_skills)]
        \* overall_score = keyword_score * 0.6 + skill_score * 0.4
        Overall(keyword_score, skill_score) ==
            Frac(6 * keyword_score.n * skill_score.d + 4 * skill_score.n * keyword_score.d,
                 10 * keyword_score.d * skill_score.d)
        Result(m, keyword_score, skill_score, overall_score, section_alignment,
               categorized) ==
            [match_score |-> Some(Round2(overall_score)),
             grade |-> GetMatchGrade(overall_score),
             breakdown |-> [keyword_match |-> Round2(keyword_score),
                            skill_match |-> Round2(skill_score)],
             matched |-> [skills |-> SortedStrs(m.skill_matches),
                          keywords |-> Take(SortedStrs(m.keyword_matches), 20)],
             missing |-> [must_have_skills |->
                              Take(SortedStrs(categorized.must_have), 10),
                          nice_to_have_skills |->
                              Take(SortedStrs(categorized.nice_to_have), 10),
                          keywords |-> Take(SortedStrs(m.keyword_missing), 15)],
             section_alignment |-> section_alignment,
             recommendations |->
                 GenerateRecommendations(overall_score, m.skill_missing,
                                         m.keyword_missing, section_alignment, seed),
             coverage |-> [skills |-> <<Cardinality(m.skill_matches),
                                        Cardinality(m.jd_required_skills)>>,
                           keywords |-> <<Cardinality(m.keyword_matches),
                                          Cardinality(m.jd_keywords)>>]]
        Scored(m, keyword_score, skill_score) ==
            Result(m, keyword_score, skill_score, Overall(keyword_score, skill_score),
                   AnalyzeSectionAlignment(resume_text, jd_text[1]),
                   CategorizeRequirements(jd_text[1], m.skill_missing))
        Score(m) ==
            Scored(m, CalculateMatchScore(m.keyword_matches, m.jd_keywords),
                      CalculateMatchScore(m.skill_matches, m.jd_required_skills))
    IN  IF JdUnusable(jd_text) THEN NoJdSentinel
        ELSE Score(Compare(ExtractKeywords(resume_text), ExtractKeywords(jd_text[1]),
                           ExtractJdSkills(jd_text[1])))

-----------------------------------------------------------------------------
(* analysis_service.py: analyze_resume *)

\* ResumeAnalysisService._generate_overall_recommendations; scores in
\* hundredths
GenerateOverallRecommendations(ats_results, role_matches, skill_analysis, jd_analysis) ==
    LET best_role == role_matches[1]
        jd_low == /\ jd_analysis # None
                  /\ jd_analysis[1].match_score # None
                  /\ jd_analysis[1].match_score[1] # 0
                  /\ jd_analysis[1].match_score[1] < 7000
        recommendations ==
            (IF ats_results.overall_score < 7000
             THEN Take(ats_results.priority_improvements, 2) ELSE <<>>)
            \o (IF role_matches # <<>> /\ best_role.overall_score < 7000
                THEN <<(<<"to_better_match", best_role.role,
                          Take(best_role.missing_skills.critical, 3)>>)>>
                ELSE <<>>)
            \o (IF skill_analysis.total_unique_skills < 10
                THEN <<(<<"expand_skill_set">>)>> ELSE <<>>)
            \o (IF jd_low /\ jd_analysis[1].missing.must_have_skills # <<>>
                THEN <<(<<"critical_jd_requirements",
                          Take(jd_analysis[1].missing.must_have_skills, 3)>>)>>
                ELSE <<>>)
    IN  Take(recommendations, 10)

\* ResumeAnalysisService._group_matches_by_category: the categories in the
\* order they are first met, each with its three best roles
GroupMatchesByCategory(role_matches) ==
    LET first == SelectSeq([i \in 1..Len(role_matches) |-> i],
                           LAMBDA i : \A h \in 1..(i - 1) :
                               role_matches[h].category # role_matches[i].category)
        Entry(match) == [role |-> match.role,
                         score |-> match.overall_score,
                         confidence |-> match.confidence]
        Group(i) ==
            LET members == SelectSeq(role_matches,
                                     LAMBDA m : m.category = role_matches[i].category)
                sorted == StableSort(SeqMap(Entry, members),
                                     LAMBDA x, y : x.score > y.score)
            IN  [category |-> role_matches[i].category, roles |-> Take(sorted, 3)]
    IN  SeqMap(Group, first)

\* ResumeAnalysisService._get_priority_actions
GetPriorityActions(ats_results, skill_analysis, jd_analysis) ==
    (IF ats_results.overall_score < 6000
     THEN <<[priority |-> "CRITICAL", action |-> "ATS Optimization",
             description |-> <<"may_not_pass">>,
             steps |-> Take(ats_results.priority_improvements, 2)]>>
     ELSE <<>>)
    \o (IF skill_analysis.total_unique_skills < 8
        THEN <<[priority |-> "HIGH", action |-> "Expand Skills",
                description |-> <<"add_more", 8 - skill_analysis.total_unique_skills>>,
                steps |-> <<(<<"research_tools">>), <<"include_technologies">>>>]>>
        ELSE <<>>)
    \o (IF /\ jd_analysis # None
           /\ jd_analysis[1].match_score # None
           /\ jd_analysis[1].match_score[1] # 0
           /\ jd_analysis[1].match_score[1] < 6000
        THEN <<[priority |-> "HIGH", action |-> "Tailor to Job Description",
                description |-> <<"not_aligned">>,
                steps |-> Take(jd_analysis[1].recommendations, 2)]>>
        ELSE <<>>)

\* ResumeAnalysisService._generate_insights
GenerateInsights(ats_results, role_matches, skill_analysis, experience) ==
    <<[category |-> "ATS Compatibility",
       insight |-> <<ats_results.grade>>,
       impact |-> IF ats_results.overall_score >= 7500 THEN "HIGH" ELSE "CRITICAL"]>>
    \o (IF role_matches # <<>>
        THEN <<[category |-> "Best Role Fit",
                insight |-> <<role_matches[1].role, role_matches[1].confidence,
                              role_matches[1].match_count.total>>,
                impact |-> "MEDIUM"]>>
        ELSE <<>>)
    \o <<[category |-> "Skill Portfolio",
          insight |-> <<skill_analysis.total_unique_skills>>,
          impact |-> "MEDIUM"]>>
    \o (IF experience.max_years > 0
        THEN <<[category |-> "Experience Level",
                insight |-> <<experience.max_years>>,
                impact |-> "LOW"]>>
        ELSE <<>>)

\* the local variables of one analyze_resume call before its first statement
EmptyFrame ==
    [skill_analysis |-> [skills |-> <<>>, skill_list |-> <<>>,
                         total_unique_skills |-> 0, high_confidence_skills |-> <<>>],
     certifications |-> <<>>,
     experience |-> [max_years |-> 0, min_years |-> 0, avg_years |-> 0],
     education |-> <<>>,
     action_verbs |-> <<>>,
     metrics |-> <<>>,
     sections |-> [s \in Range(SectionNames) |-> FALSE],
     ats_results |-> [overall_score |-> 0, grade |-> "D", priority_improvements |-> <<>>],
     role_matches |-> <<>>,
     top_roles |-> <<>>,
     jd_analysis |-> None,
     overall_recommendations |-> <<>>,
     health_score |-> 0]

\* the local variables of call i as those of the first call (one set of
\* variables kept on the shared service object)
FrameOfFirstCall(i) == locals[1].frame

\* the local variables of call i of analyze_resume
Frame(i) == locals[i].frame

\* 1. Extract Skills and Components
StepExtract(f, patterns, syn, resume_text) ==
    [f EXCEPT !.skill_analysis = ExtractSkills(patterns, syn, resume_text),
              !.certifications = ExtractCertifications(resume_text),
              !.experience = ExtractYearsOfExperience(resume_text),
              !.education = ExtractEducation(resume_text),
              !.action_verbs = ExtractActionVerbs(resume_text),
              !.metrics = ExtractMetrics(resume_text)]

\* 2. Detect Sections
StepSections(f, resume_text) == [f EXCEPT !.sections = DetectSections(resume_text)]

\* 3. ATS Analysis
StepAts(f, resume_text) ==
    [f EXCEPT !.ats_results =
        AnalyzeAtsScore(resume_text, f.skill_analysis.skill_list, f.sections,
                        f.action_verbs, f.metrics)]

\* 4. Role Matching.  get_top_matches sets "insights" on the first top_n
\* records of role_matches themselves; top_roles is a list of those records.
StepRoles(f, role_db, syn) ==
    LET \* the records of top_roles are those at the head of role_matches
        Assign(role_matches, top_roles) ==
            [f EXCEPT !.role_matches =
                          top_roles \o SubSeq(role_matches, Len(top_roles) + 1,
                                              Len(role_matches)),
                      !.top_roles = top_roles]
        Top(role_matches) == Assign(role_matches, GetTopMatches(role_matches, 10))
    IN  Top(MatchRoles(role_db, syn, f.skill_analysis.skill_list,
                       f.skill_analysis.skills, f.experience.max_years,
                       f.certifications, f.education))

\* step 5 with analyze_jd_match called whether or not a job description was
\* given
StepJdUnconditional(f, seed, resume_text, job_description) ==
    [f EXCEPT !.jd_analysis =
        Some(AnalyzeJdMatch(resume_text, job_description,
                            f.skill_analysis.skill_list, seed))]

\* 5. Job Description Matching (if provided); job_description is None or
\* Some(text)
StepJd(f, seed, resume_text, job_description) ==
    LET WithTips(jd_analysis, tailored_tips) ==
            [k \in DOMAIN jd_analysis \cup {"tailored_tips"} |->
                IF k = "tailored_tips" THEN tailored_tips ELSE jd_analysis[k]]
    IN  IF job_description # None /\ TextLen(job_description[1]) > 0
        THEN [f EXCEPT !.jd_analysis =
                 Some(WithTips(AnalyzeJdMatch(resume_text, job_description,
                                              f.skill_analysis.skill_list, seed),
                               GenerateTailoredResumeTips(job_description[1],
                                                          resume_text)))]
        ELSE [f EXCEPT !.jd_analysis = None]

\* 6. Generate Overall Recommendations
StepRecommend(f) ==
    [f EXCEPT !.overall_recommendations =
        GenerateOverallRecommendations(f.ats_results, f.top_roles, f.skill_analysis,
                                       f.jd_analysis)]

\* 7. Calculate Resume Health Score
StepHealth(f) ==
    [f EXCEPT !.health_score =
        CalculateHealthScore(f.ats_results.overall_score,
                             Len(f.skill_analysis.skill_list), Len(f.action_verbs),
                             Len(f.metrics), f.sections)]

\* the dict that analyze_resume returns
BuildReport(f) ==
    [resume_health |-> [overall_score |-> f.health_score,
                        status |-> GetHealthStatus(f.health_score)],
     ats_analysis |-> f.ats_results,
     skills |-> [extracted_skills |-> f.skill_analysis.skill_list,
                 skill_details |-> f.skill_analysis.skills,
                 total_skills |-> f.skill_analysis.total_unique_skills,
                 high_confidence_skills |-> f.skill_analysis.high_confidence_skills,
                 certifications |-> f.certifications],
     experience |-> [max_years |-> f.experience.max_years,
                     min_years |-> f.experience.min_years,
                     avg_years |-> f.experience.avg_years,
                     education |-> f.education],
     role_matching |-> [top_matches |-> Take(f.top_roles, 5),
                        all_categories |-> GroupMatchesByCategory(f.role_matches),
                        best_fit_role |-> IF f.top_roles # <<>> THEN Some(f.top_roles[1])
                                          ELSE None],
     content_analysis |-> [action_verbs |-> Take(f.action_verbs, 15),
                           quantifiable_metrics |-> f.metrics,
                           sections_detected |-> f.sections,
                           total_action_verbs |-> Len(f.action_verbs),
                           total_metrics |-> Len(f.metrics)],
     job_description_match |-> f.jd_analysis,
     recommendations |-> [overall |-> f.overall_recommendations,
                          priority_actions |->
                              GetPriorityActions(f.ats_results, f.skill_analysis,
                                                 f.jd_analysis)],
     insights |-> GenerateInsights(f.ats_results, f.top_roles, f.skill_analysis,
                                   f.experience)]

\* step n (1 to 7) of analyze_resume applied to the local variables f
ApplyStep(n, f, patterns, role_db, syn, seed, resume_text, job_description) ==
    CASE n = 1 -> StepExtract(f, patterns, syn, resume_text)
      [] n = 2 -> StepSections(f, resume_text)
      [] n = 3 -> StepAts(f, resume_text)
      [] n = 4 -> StepRoles(f, role_db, syn)
      [] n = 5 -> StepJd(f, seed, resume_text, job_description)
      [] n = 6 -> StepRecommend(f)
      [] n = 7 -> StepHealth(f)

\* the local variables of analyze_resume after its first n steps
RECURSIVE RunSteps(_, _, _, _, _, _, _)
RunSteps(n, patterns, role_db, syn, seed, resume_text, job_description) ==
    IF n = 0 THEN EmptyFrame
    ELSE ApplyStep(n, RunSteps(n - 1, patterns, role_db, syn, seed, resume_text, job_description), patterns, role_db, syn, seed, resume_text, job_description)

\* the local variables of analyze_resume when it reaches its return statement
AnalyzeFrame(patterns, role_db, syn, seed, resume_text, job_description) ==
    StepHealth(
      StepRecommend(
        StepJd(
          StepRoles(
            StepAts(
              StepSections(StepExtract(EmptyFrame, patterns, syn, resume_text),
                           resume_text),
              resume_text),
            role_db, syn),
          seed, resume_text, job_description)))

\* ResumeAnalysisService.analyze_resume
AnalyzeResume(patterns, role_db, syn, seed, resume_text, job_description) ==
    BuildReport(AnalyzeFrame(patterns, role_db, syn, seed, resume_text, job_description))

-----------------------------------------------------------------------------
(* resume_parser.py *)

\* ResumeParser.supported_formats
SupportedFormats == {".pdf", ".docx", ".doc", ".txt", ".png", ".jpg", ".jpeg"}

\* os.path.splitext(filename.lower())[1] of a file name given as atoms
SplitExt(filename) ==
    LET dots == {k \in 2..Len(filename) : filename[k] = "."}
    IN  IF dots = {} THEN ""
        ELSE Concat(LowerStr(SubSeq(filename, MaxOfSet(dots), Len(filename))))

\* ResumeParser._clean_text: every run of whitespace becomes one space and the
\* ends are stripped (the other substitutions concern characters outside the
\* alphabet of the model, or newlines, of which none is left)
CleanText(t) ==
    LET a == t.atoms
        kept == SelectSeq([i \in DOMAIN a |->
                              IF ~IsSpace(a[i]) THEN a[i]
                              ELSE IF i > 1 /\ ~IsSpace(a[i - 1]) THEN " " ELSE ""],
                          LAMBDA x : x # "")
        body == IF kept # <<>> /\ kept[Len(kept)] = " "
                THEN SubSeq(kept, 1, Len(kept) - 1) ELSE kept
    IN  IF body = <<>> /\ t.pad > 0 THEN Text(<<PadWord>>, t.pad - 1)
        ELSE Text(body, t.pad)

\* the words of the first and of the last indicator of validate_resume
ResumeWords      == {"experience", "education", "skills", "projects", "work"}
InstitutionWords == {"university", "college", "institute", "school"}

\* the four indicators of validate_resume, each a re.search on the text
ResumeIndicators(t) ==
    <<\E i \in DOMAIN t.atoms : LowerAtom(t.atoms[i]) \in ResumeWords,
      \E i \in DOMAIN t.atoms : Len(t.atoms[i]) = 4 /\ IsDigits(t.atoms[i]),
      \E i \in DOMAIN t.atoms : t.atoms[i] = "@",
      \E i \in DOMAIN t.atoms : LowerAtom(t.atoms[i]) \in InstitutionWords>>

\* validate_resume content with one matching indicator
ValidateResumeOneIndicator(t) ==
    LET ind == ResumeIndicators(t)
        matches == Cardinality({k \in DOMAIN ind : ind[k]})
    IN  IF TextLen(t) < 50
        THEN [is_valid |-> FALSE, error |-> Some("Text too short to be a valid resume")]
        ELSE IF matches < 1
        THEN [is_valid |-> FALSE,
              error |-> Some("Content doesn't appear to be a resume")]
        ELSE [is_valid |-> TRUE, error |-> None]

\* validate_resume with its limit of 50 read as a number of words
ValidateResumeByWords(t) ==
    LET ind == ResumeIndicators(t)
        matches == Cardinality({k \in DOMAIN ind : ind[k]})
    IN  IF WordCount(t) < 50
        THEN [is_valid |-> FALSE, error |-> Some("Text too short to be a valid resume")]
        ELSE IF matches < 2
        THEN [is_valid |-> FALSE,
              error |-> Some("Content doesn't appear to be a resume")]
        ELSE [is_valid |-> TRUE, error |-> None]

\* ResumeParser.validate_resume: [is_valid, error]
ValidateResume(t) ==
    LET ind == ResumeIndicators(t)
        matches == Cardinality({k \in DOMAIN ind : ind[k]})
    IN  IF TextLen(t) < 50
        THEN [is_valid |-> FALSE, error |-> Some("Text too short to be a valid resume")]
        ELSE IF matches < 2
        THEN [is_valid |-> FALSE,
              error |-> Some("Content doesn't appear to be a resume")]
        ELSE [is_valid |-> TRUE, error |-> None]

\* ResumeParser.extract_text: [text, error].  `files` is the uploads
\* directory; a file holds [readable, text], and reading a missing file or an
\* unreadable one raises inside the try block.
ExtractText(files, file_path, filename) ==
    LET ext == SplitExt(filename)
    IN  IF ext \notin SupportedFormats
        THEN [text |-> Text(<<>>, 0), error |-> Some("Unsupported file format")]
        ELSE IF file_path \notin DOMAIN files \/ ~files[file_path].readable
        THEN [text |-> Text(<<>>, 0), error |-> Some("Error extracting text")]
        ELSE LET text == CleanText(files[file_path].text)
             IN  IF TextLen(text) < 50
                 THEN [text |-> text,
                       error |-> Some("Could not extract sufficient text")]
                 ELSE [text |-> text, error |-> None]

-----------------------------------------------------------------------------
(* main.py: the /analyze handler *)

\* the path under UPLOAD_DIR that a file received at time `now` is saved to:
\* f"{int(time.time())}_{file.filename}"
UploadPath(now, filename) == <<now, filename>>

\* the uploads directory after a file is written to `path`
WriteFile(files, path, content) ==
    [p \in DOMAIN files \cup {path} |-> IF p = path THEN content ELSE files[p]]

\* cleanup_file: the uploads directory after os.remove(path), if the file is
\* there
RemoveFile(files, path) == [p \in DOMAIN files \ {path} |-> files[p]]

\* where the handler goes after extract_text: `if parse_error: raise ...`
AfterExtract(parse_error) == IF parse_error # None THEN "reject" ELSE "validate"

\* validate_resume followed by analyze_resume whatever it said
AfterValidateAlways(is_valid) == "analyze"

\* where the handler goes after validate_resume: `if not is_valid: raise ...`
AfterValidate(is_valid) == IF is_valid THEN "analyze" ELSE "reject"

\* the handler taking an exception of analyze_resume for a result and going on
AfterAnalyzeAlways(raised) == "metadata"

\* where the handler goes after the call of analyze_resume: on to the
\* metadata, or to `except Exception` when the call raised
AfterAnalyze(raised) == IF raised THEN "failed" ELSE "metadata"

\* `except Exception as e`: AnalysisResponse(success=False,
\* error=f"Analysis failed: {str(e)}", processing_time=...); data keeps its
\* default None, which the response carries as no data at all
AnalysisFailed(e) ==
    [status |-> 200, success |-> FALSE, error |-> <<"Analysis failed", e>>]

\* analysis_result["metadata"]; the file size in hundredths of a KB
Metadata(filename, file, extracted_text) ==
    [filename |-> filename,
     file_size_kb |-> RoundDiv(TextLen(file.text) * 100, 1024),
     text_length |-> TextLen(extracted_text),
     word_count |-> WordCount(extracted_text)]

\* the handler's local variables when a request comes in
HandlerLocals ==
    [file_path |-> None,
     extracted_text |-> Text(<<>>, 0),
     detail |-> None,
     cleanup |-> "none",
     frame |-> EmptyFrame]

\* the job description the handler passes on:
\* `job_description if job_description else None`
JdArgument(job_description) ==
    IF job_description # None /\ TextLen(job_description[1]) = 0
    THEN None ELSE job_description

-----------------------------------------------------------------------------
(* Values of the variables a specification does not use *)

NotRun      == [done |-> FALSE]
Returned(v) == [done |-> TRUE, value |-> v]

NoProcess == hash_seed = <<>> /\ skill_patterns = <<>>
NoFlow    == /\ pc = <<>> /\ request = <<>> /\ locals = <<>> /\ response = <<>>
             /\ uploads = <<>> /\ clock = 0

-----------------------------------------------------------------------------
(* SpecATS: analyze_ats_score applied to bounded inputs *)

MaxSkillCount  == 15
MaxVerbCount   == 10
MaxMetricCount == 8

SkillListOf(n) == [i \in 1..n |-> <<"skill", i>>]

VerbListOf(n, c1, c2) ==
    [i \in 1..n |->
        [verb |-> ActionVerbList[((i - 1) % Len(ActionVerbList)) + 1],
         count |-> IF i = 1 THEN c1 ELSE c2]]

MetricListOf(n, a, b) ==
    [i \in 1..n |-> [metric |-> IF i = 1 THEN a ELSE b, context |-> <<>>]]

\* a section map with the first r required and the first c recommended sections
SectionMapOf(r, c) ==
    [s \in Range(SectionNames) |->
        \/ \E i \in 1..r : RequiredSections[i] = s
        \/ \E i \in 1..c : RecommendedSections[i] = s]

AtsRichA ==
    <<"Built", " ", "python", "-", "based", " ", "tools", ".", " ",
      "a", "@", "b", ".", "com", " ", "LinkedIn">>
AtsRichB ==
    <<"responsible", " ", "for", " ", "tasks", " ", "*", " ",
      "x", ".", "y", "@", "mail", ".", "co", ".", "uk", " ",
      "555", "-", "123", "-", "4567", " ", "GitHub">>

AtsTexts ==
    {Text(<<>>, 0), Text(<<>>, 400), Text(AtsRichA, 0), Text(AtsRichA, 1201),
     Text(AtsRichB, 299), Text(AtsRichA \o <<" ">> \o AtsRichB, 400)}

MetricPairs ==
    {<<(<<"5", " ", "users">>), <<"5", " ", "users">>>>,
     <<(<<"$", "5">>), <<"5", " ", "users">>>>,
     <<(<<"by", " ", "35", "%">>), <<"5", " ", "users">>>>,
     <<(<<"by", " ", "35", "%">>), <<"$", "1000">>>>}

InitATS ==
    /\ roles = <<>>
    /\ synonyms = <<>>
    /\ NoProcess
    /\ NoFlow
    /\ \E t \in AtsTexts, n \in {0, 5, 10, MaxSkillCount}, r \in 0..3, c \in {0, 2, 3},
          v \in {0, 3, 6, MaxVerbCount}, vc \in {1, 2},
          m \in {0, 1, 5, MaxMetricCount}, mp \in MetricPairs :
          call = [fn |-> "analyze_ats_score",
                  text |-> t,
                  extracted_skills |-> SkillListOf(n),
                  sections_found |-> SectionMapOf(r, c),
                  action_verbs |-> VerbListOf(v, vc, vc),
                  metrics |-> MetricListOf(m, mp[1], mp[2])]
    /\ ret = NotRun

CallAnalyzeAtsScore ==
    /\ call.fn = "analyze_ats_score"
    /\ ~ret.done
    /\ ret' = Returned(AnalyzeAtsScore(call.text, call.extracted_skills,
                                       call.sections_found, call.action_verbs,
                                       call.metrics))
    /\ UNCHANGED <<roles, synonyms, hash_seed, skill_patterns, call,
                   pc, request, locals, response, uploads, clock>>

NextATS == CallAnalyzeAtsScore

SpecATS == InitATS /\ [][NextATS]_vars

\* the maximum the documentation gives each ATS category, in points
DocumentedMax(category) ==
    CASE category = "sections"     -> 25
      [] category = "keywords"     -> 20
      [] category = "action_verbs" -> 15
      [] category = "metrics"      -> 20
      [] category = "formatting"   -> 10
      [] category = "contact"      -> 10

\* C1: whatever the text, skill list, section map, action-verb list and
\* metrics list, each of the six ATS sub-scores is at least 0 and at most its
\* documented maximum (sections 25, keywords 20, action verbs 15, metrics 20,
\* formatting 10, contact 10), and overall_score is in [0, 100].
C1_AtsScoresBounded ==
    ret.done =>
        /\ \A c \in Range(Categories) :
              /\ ret.value.breakdown[c] >= 0
              /\ ret.value.breakdown[c] <= 3 * DocumentedMax(c)
        /\ ret.value.overall_score >= 0
        /\ ret.value.overall_score <= 100 * 100

\* a call in which every sub-score reaches its maximum
C1_Witness ==
    /\ ret.done
    /\ ret.value.overall_score = 100 * 100
    /\ \A c \in Range(Categories) : ret.value.breakdown[c] = 3 * DocumentedMax(c)

\* the score of category c in the ATS result is below t percent of its maximum
PercentBelow(c, t) == ret.value.breakdown[c] * 100 < t * 3 * GetMaxScore(c)

\* the categories named in a list of strengths or priorities
CategoriesIn(lines) == {lines[k][2] : k \in {k \in DOMAIN lines : Len(lines[k]) > 1}}

\* the placeholder sentences of the two lists
StrengthsPlaceholder == <<(<<"keep_working">>)>>
PrioritiesPlaceholder == <<(<<"great_job">>)>>

\* C24: strengths lists exactly the categories at 80% of their maximum or
\* more; priority_improvements lists categories below 70%, URGENT when below
\* 50% and Important otherwise, at most 5 of them; no category is in both
\* lists; each list is its placeholder sentence only when it would otherwise
\* be empty.
C24_StrengthsAndPriorities ==
    ret.done =>
        LET strengths == ret.value.strengths
            priorities == ret.value.priority_improvements
            strong == {c \in Range(Categories) : ~PercentBelow(c, 80)}
            low == {c \in Range(Categories) : PercentBelow(c, 70)}
        IN  /\ strengths = StrengthsPlaceholder <=> strong = {}
            /\ strong # {} =>
                  /\ \A k \in DOMAIN strengths : strengths[k][1] = "strong"
                  /\ CategoriesIn(strengths) = strong
                  /\ Len(strengths) = Cardinality(strong)
            /\ priorities = PrioritiesPlaceholder <=> low = {}
            /\ low # {} =>
                  /\ \A k \in DOMAIN priorities :
                        /\ priorities[k][2] \in low
                        /\ priorities[k][1] =
                              (IF PercentBelow(priorities[k][2], 50)
                               THEN "urgent" ELSE "important")
                  /\ Len(priorities) = Min(Cardinality(low), 5)
                  /\ Cardinality(CategoriesIn(priorities)) = Len(priorities)
            /\ Len(priorities) <= 5
            /\ CategoriesIn(strengths) \cap CategoriesIn(priorities) = {}

\* a result with strong categories, an URGENT and an Important one
C24_Witness ==
    /\ ret.done
    /\ call.fn = "analyze_ats_score"
    /\ \E k \in DOMAIN ret.value.strengths : ret.value.strengths[k][1] = "strong"
    /\ \E k \in DOMAIN ret.value.priority_improvements :
          ret.value.priority_improvements[k][1] = "urgent"
    /\ \E k \in DOMAIN ret.value.priority_improvements :
          ret.value.priority_improvements[k][1] = "important"
    /\ \E c \in Range(Categories) : PercentBelow(c, 80) /\ ~PercentBelow(c, 70)

\* C25: the cap of 5 never drops an URGENT category while it keeps an
\* Important one: a category below 50% of its maximum is listed as URGENT
\* unless five other URGENT categories are listed.
C25_UrgentNeverDroppedForImportant ==
    ret.done =>
        LET priorities == ret.value.priority_improvements
        IN  \A c \in Range(Categories) :
                PercentBelow(c, 50) =>
                    \/ \E k \in DOMAIN priorities : priorities[k] # <<"great_job">>
                                                    /\ priorities[k][1] = "urgent"
                                                    /\ priorities[k][2] = c
                    \/ /\ Len(priorities) = 5
                       /\ \A k \in DOMAIN priorities : priorities[k][1] = "urgent"

\* the entries of a list that are no placeholder
RealItems(lines) == \A k \in DOMAIN lines : lines[k][1] \in {"urgent", "important"}

\* C26: whenever the ATS overall score is below 70, priority_improvements
\* holds at least one URGENT or Important entry and not the placeholder, so
\* the items copied into the merged recommendations (score below 70) and
\* into the CRITICAL priority action (score below 60) are improvement items.
C26_LowScoreHasRealPriorities ==
    (ret.done /\ ret.value.overall_score < 7000) =>
        /\ ret.value.priority_improvements # <<>>
        /\ RealItems(ret.value.priority_improvements)
        /\ LET merged == GenerateOverallRecommendations(
                             ret.value, <<>>, [total_unique_skills |-> 10], None)
           IN  merged # <<>> /\ RealItems(merged)
        /\ ret.value.overall_score < 6000 =>
              LET actions == GetPriorityActions(ret.value, [total_unique_skills |-> 8], None)
              IN  /\ Len(actions) = 1
                  /\ actions[1].priority = "CRITICAL"
                  /\ actions[1].steps # <<>>
                  /\ RealItems(actions[1].steps)

\* a score below 70 with no category below 50% of its maximum: the entries
\* are Important ones, and they are what the merged recommendations get
C26_Witness ==
    /\ ret.done
    /\ call.fn = "analyze_ats_score"
    /\ ret.value.overall_score < 7000
    /\ ret.value.priority_improvements # PrioritiesPlaceholder
    /\ \A k \in DOMAIN ret.value.priority_improvements :
          ret.value.priority_improvements[k][1] = "important"
    /\ \A c \in Range(Categories) : ~PercentBelow(c, 50)

-----------------------------------------------------------------------------
(* SpecHealth: _calculate_health_score applied to bounded inputs *)

HealthMaxCount == 20
HealthCounts   == {0, 1, 5, 10, 15, HealthMaxCount}

InitHealth ==
    /\ roles = <<>>
    /\ synonyms = <<>>
    /\ NoProcess
    /\ NoFlow
    /\ \E a \in {0, 1, 3333, 6999, 10000}, sc \in HealthCounts, vc \in HealthCounts,
          mc \in HealthCounts, r \in 0..3, c \in {0, 3} :
          call = [fn |-> "_calculate_health_score",
                  ats_score |-> a,
                  skill_count |-> sc,
                  verb_count |-> vc,
                  metric_count |-> mc,
                  sections |-> SectionMapOf(r, c)]
    /\ ret = NotRun

CallCalculateHealthScore ==
    /\ call.fn = "_calculate_health_score"
    /\ ~ret.done
    /\ ret' = Returned(CalculateHealthScore(call.ats_score, call.skill_count,
                                            call.verb_count, call.metric_count,
                                            call.sections))
    /\ UNCHANGED <<roles, synonyms, hash_seed, skill_patterns, call,
                   pc, request, locals, response, uploads, clock>>

NextHealth == CallCalculateHealthScore

SpecHealth == InitHealth /\ [][NextHealth]_vars

\* C2: for an ATS score in [0, 100] and non-negative counts the health score
\* is in [0, 100], and its components are capped at 40 (ATS), 25 (skills),
\* 20 (content) and 15 (completeness).
C2_HealthScoreBounded ==
    ret.done =>
        /\ ret.value >= 0
        /\ ret.value <= 100 * 100
        /\ ret.value * 750 <=
              100 * (HealthAtsComponent(call.ats_score)
                     + HealthSkillComponent(call.skill_count)
                     + HealthContentComponent(call.verb_count, call.metric_count)
                     + HealthCompleteness(call.sections)) + 375
        /\ HealthAtsComponent(call.ats_score) <= 40 * 750
        /\ HealthSkillComponent(call.skill_count) <= 25 * 750
        /\ HealthContentComponent(call.verb_count, call.metric_count) <= 20 * 750
        /\ HealthCompleteness(call.sections) <= 15 * 750

\* a call with every count above its cap, scoring 100
C2_Witness ==
    /\ ret.done
    /\ call.skill_count > 15
    /\ call.verb_count > 10
    /\ call.metric_count > 5
    /\ call.ats_score = 100 * 100
    /\ ret.value = 100 * 100

-----------------------------------------------------------------------------
(* SpecRoles: match_roles and _match_with_synonyms applied to bounded inputs *)

MaxYears == 12

\* skills a resume may yield, in the order extract_skills lists them
RoleSkillPool ==
    <<(<<"python">>), <<"js">>, <<"git">>, <<"docker">>, <<"aws">>,
      <<"amazon", " ", "web", " ", "services">>, <<"communication">>>>

\* the sub-list of a list that keeps the positions in `keep`
SubList(s, keep) ==
    LET RECURSIVE Pick(_)
        Pick(i) == IF i > Len(s) THEN <<>>
                   ELSE (IF i \in keep THEN <<s[i]>> ELSE <<>>) \o Pick(i + 1)
    IN  Pick(1)

RoleCertLists ==
    {<<>>, <<(<<"AWS", " ", "solutions", " ", "architect", " ", "2020">>)>>}

InitRoles ==
    /\ roles = JOB_DATABASE
    /\ synonyms = SKILL_SYNONYMS
    /\ NoProcess
    /\ NoFlow
    /\ \/ \E keep \in SUBSET DOMAIN RoleSkillPool, years \in {0, 3, MaxYears},
             certs \in RoleCertLists :
             call = [fn |-> "match_roles",
                     extracted_skills |-> SubList(RoleSkillPool, keep),
                     skill_details |-> <<>>,
                     experience_years |-> years,
                     certifications |-> certs,
                     education |-> <<>>]
       \/ \E i \in DOMAIN SKILL_SYNONYMS :
             \E j \in DOMAIN SKILL_SYNONYMS[i].variants :
                \E other \in {<<"python">>, <<"excel">>} :
                   LET c == SKILL_SYNONYMS[i].primary
                       v == SKILL_SYNONYMS[i].variants[j]
                   IN  \E req \in {c, v}, ext \in {c, v, other} :
                          call = [fn |-> "_match_with_synonyms",
                                  required |-> {req},
                                  extracted |-> {ext}]
    /\ ret = NotRun

CallMatchRoles ==
    /\ call.fn = "match_roles"
    /\ ~ret.done
    /\ ret' = Returned(MatchRoles(roles, synonyms, call.extracted_skills,
                                  call.skill_details, call.experience_years,
                                  call.certifications, call.education))
    /\ UNCHANGED <<roles, synonyms, hash_seed, skill_patterns, call,
                   pc, request, locals, response, uploads, clock>>

CallMatchWithSynonyms ==
    /\ call.fn = "_match_with_synonyms"
    /\ ~ret.done
    /\ ret' = Returned(MatchWithSynonyms(synonyms, call.required, call.extracted))
    /\ UNCHANGED <<roles, synonyms, hash_seed, skill_patterns, call,
                   pc, request, locals, response, uploads, clock>>

NextRoles == CallMatchRoles \/ CallMatchWithSynonyms

SpecRoles == InitRoles /\ [][NextRoles]_vars

\* the position of a role in the catalog
CatalogIndex(role) == CHOOSE i \in DOMAIN roles : roles[i].role = role

\* C3: for a catalog of N roles match_roles returns exactly N records, one per
\* catalog role, in non-increasing order of overall_score, and records with
\* equal overall_score keep their catalog order.
C3_RankingTotalSortedStable ==
    (ret.done /\ call.fn = "match_roles") =>
        /\ Len(ret.value) = Len(roles)
        /\ \A i \in DOMAIN roles :
              Cardinality({k \in DOMAIN ret.value :
                              ret.value[k].role = roles[i].role}) = 1
        /\ \A k \in 1..(Len(ret.value) - 1) :
              \/ ret.value[k].overall_score > ret.value[k + 1].overall_score
              \/ /\ ret.value[k].overall_score = ret.value[k + 1].overall_score
                 /\ CatalogIndex(ret.value[k].role) < CatalogIndex(ret.value[k + 1].role)

\* a ranking that is not the catalog order and in which two roles tie
C3_Witness ==
    /\ ret.done
    /\ call.fn = "match_roles"
    /\ \E k \in 1..(Len(ret.value) - 1) :
          ret.value[k].overall_score = ret.value[k + 1].overall_score
    /\ \E k \in 1..(Len(ret.value) - 1) :
          /\ ret.value[k].overall_score > ret.value[k + 1].overall_score
          /\ CatalogIndex(ret.value[k].role) > CatalogIndex(ret.value[k + 1].role)

\* v is listed as a variant of the canonical skill c
IsListedVariant(c, v) ==
    \E i \in DOMAIN synonyms :
        synonyms[i].primary = c /\ v \in Range(synonyms[i].variants)

\* C4: for every canonical skill c and every listed variant v of c, a
\* requirement c is matched by an extracted set holding only v, and a
\* requirement v is matched by an extracted set holding only c.
C4_SynonymMatchSymmetric ==
    (ret.done /\ call.fn = "_match_with_synonyms") =>
        \A req \in call.required, ext \in call.extracted :
            (call.extracted = {ext}
             /\ (IsListedVariant(req, ext) \/ IsListedVariant(ext, req)))
                => req \in ret.value

\* a variant requirement met by its canonical skill alone, and a requirement
\* left unmet by an unrelated skill
C4_Witness ==
    /\ ret.done
    /\ call.fn = "_match_with_synonyms"
    /\ \E req \in call.required, ext \in call.extracted :
          /\ call.extracted = {ext}
          /\ IsListedVariant(ext, req)
          /\ ~IsListedVariant(req, ext)
          /\ ret.value = {req}

-----------------------------------------------------------------------------
(* Resume and job-description texts that the specifications below use *)

ResumeRich ==
    <<"Summary", ":", " ", "engineer", " ", "with", " ", "5", " ", "years",
      " ", "of", " ", "experience", " ", "in", " ", "java", " ", "and", " ",
      "rust", ".", " ", "Built", " ", "tools", " ", "with", " ", "docker",
      ";", " ", "increased", " ", "sales", " ", "by", " ", "20", "%", ".",
      " ", "Education", ":", " ", "BS", " ", "in", " ", "Physics", " ",
      "2015", ".", " ", "Skills", ":", " ", "python", ",", " ", "aws", ".",
      " ", "a", "@", "b", ".", "co">>

ResumeNoSkills ==
    <<"Work", " ", "history", " ", "at", " ", "school", " ", "2019", " ",
      "and", " ", "nothing", " ", "else", " ", "that", " ", "matters", " ",
      "here">>

ResumeOneSkill ==
    <<"Skills", ":", " ", "python", ".", " ", "Experience", " ", "in", " ",
      "teamwork", ";", " ", "managed", " ", "12", " ", "projects", ".", " ",
      "jane", "@", "x", ".", "org">>

JdBlank ==
    <<" ", " ", "\n">>

JdShort ==
    <<"Required", " ", "skills", ":", " ", "python", ",", " ", "sql">>

JdShortWrapped ==
    <<" ", " ", "Required", " ", "skills", ":", " ", "python", ",", " ",
      "sql", " ", " ", "\n">>

JdStem23 ==
    <<"Must", " ", "have", " ", "java", " ", "and", " ", "rust">>

JdStem24 ==
    <<"Must", " ", "have", " ", "java", " ", "and", " ", "scala">>

JdFull ==
    <<"Required", " ", "skills", ":", " ", "python", ",", " ", "sql", ";",
      " ", "docker", ",", " ", "go", ",", " ", "rust", "\n", "Experience",
      " ", "with", " ", "aws", ".", " ", "Senior", " ", "role", " ", "in",
      " ", "an", " ", "innovative", " ", "team">>

JdNoTerms ==
    <<"we", " ", "do", " ", "it", " ", "as", " ", "is", ";", " ", "or", " ",
      "so", " ", "he", " ", "can", " ", "be">>

JdUnrelated ==
    <<"Qualifications", ":", " ", "bachelor", " ", "degree", " ", "in", " ",
      "nursing", ",", " ", "patient", " ", "care">>
\* the skills of the catalog, lower-cased, and the patterns a process that
\* starts with `seed` compiles from them
AllSkills == BuildSkillDatabase(JOB_DATABASE, SKILL_SYNONYMS)
ProcessPatterns(seed) == BuildSkillPatterns(AllSkills, seed)

\* len(text.strip()) read off the characters of the text
TrimmedChars(t) ==
    LET s == Concat(FullAtoms(t))
        solid == {k \in 1..Len(s) : CharAt(s, k) \notin SpaceAtoms}
    IN  IF solid = {} THEN 0 ELSE MaxOfSet(solid) - MinOfSet(solid) + 1

-----------------------------------------------------------------------------
(* SpecJD: analyze_jd_match applied to bounded inputs *)

MaxJdPad == 1

JdTexts ==
    {None, Some(Text(<<>>, 0)), Some(Text(JdBlank, 0)), Some(Text(JdShort, 0)),
     Some(Text(JdShortWrapped, 0)), Some(Text(JdFull, 0)), Some(Text(JdNoTerms, 0)),
     Some(Text(JdUnrelated, 0))}
    \cup {Some(Text(stem, k)) : stem \in {JdStem23, JdStem24}, k \in 0..MaxJdPad}

ResumeTexts ==
    {Text(ResumeRich, 0), Text(ResumeNoSkills, 0), Text(ResumeOneSkill, 1)}

JdSkillLists ==
    {<<>>, <<(<<"python">>)>>,
     <<(<<"python">>), <<"docker">>, <<"aws">>, <<"sql">>, <<"java">>>>}

InitJD ==
    /\ roles = JOB_DATABASE
    /\ synonyms = SKILL_SYNONYMS
    /\ \E seed \in HashSeeds :
          /\ hash_seed = <<seed>>
          /\ skill_patterns = <<ProcessPatterns(seed)>>
    /\ NoFlow
    /\ \E resume_text \in ResumeTexts, jd_text \in JdTexts,
          extracted_skills \in JdSkillLists :
          call = [fn |-> "analyze_jd_match",
                  resume_text |-> resume_text,
                  jd_text |-> jd_text,
                  extracted_skills |-> extracted_skills]
    /\ ret = NotRun

CallAnalyzeJdMatch ==
    /\ call.fn = "analyze_jd_match"
    /\ ~ret.done
    /\ ret' = Returned(AnalyzeJdMatch(call.resume_text, call.jd_text,
                                      call.extracted_skills, hash_seed[1]))
    /\ UNCHANGED <<roles, synonyms, hash_seed, skill_patterns, call,
                   pc, request, locals, response, uploads, clock>>

NextJD == CallAnalyzeJdMatch

SpecJD == InitJD /\ [][NextJD]_vars

\* C6: analyze_jd_match returns the "no JD" sentinel (no match score, no
\* recommendations) whenever the job description is missing or has 29 or
\* fewer characters after trimming, and a numeric match score between 0 and
\* 100 for every job description of 30 or more trimmed characters.
C6_JdSentinelOrScore ==
    ret.done =>
        IF call.jd_text = None \/ TrimmedChars(call.jd_text[1]) <= 29
        THEN /\ ret.value.match_score = None
             /\ ret.value.recommendations = <<>>
        ELSE /\ ret.value.match_score # None
             /\ ret.value.match_score[1] >= 0
             /\ ret.value.match_score[1] <= 100 * 100

\* a job description of exactly 30 trimmed characters got a numeric score
C6_Witness ==
    /\ ret.done
    /\ call.jd_text # None
    /\ TrimmedChars(call.jd_text[1]) = 30
    /\ ret.value.match_score # None
    /\ ret.value.match_score[1] \in 1..9999

\* matched / total x 100 in hundredths, 100 for an empty total
PercentOf(pair) == IF pair[2] = 0 THEN 10000 ELSE RoundDiv(pair[1] * 10000, pair[2])

\* C17: for a job description that qualifies, the keyword score and the skill
\* score are each matched / total x 100, or 100 when the job description has
\* no keyword (no skill); the match score is 0.6 x keyword score + 0.4 x skill
\* score and lies between 0 and 100; so a job description with no keyword and
\* no skill scores 100 against every resume.
C17_JdScoreWeighted ==
    (ret.done /\ ret.value.match_score # None) =>
        LET k == ret.value.coverage.keywords
            s == ret.value.coverage.skills
            kd == IF k[2] = 0 THEN 1 ELSE k[2]
            sd == IF s[2] = 0 THEN 1 ELSE s[2]
            kn == IF k[2] = 0 THEN 1 ELSE k[1]
            sn == IF s[2] = 0 THEN 1 ELSE s[1]
        IN  /\ ret.value.breakdown.keyword_match = PercentOf(k)
            /\ ret.value.breakdown.skill_match = PercentOf(s)
            /\ ret.value.match_score[1] =
                  RoundDiv(6000 * kn * sd + 4000 * sn * kd, kd * sd)
            /\ ret.value.match_score[1] \in 0..10000
            /\ (k[2] = 0 /\ s[2] = 0) => ret.value.match_score[1] = 10000

\* a job description of 30 or more characters with no keyword and no skill in
\* it scored 100 against a resume in which no skill was found
C17_Witness ==
    /\ ret.done
    /\ call.fn = "analyze_jd_match"
    /\ call.jd_text = Some(Text(JdNoTerms, 0))
    /\ call.extracted_skills = <<>>
    /\ ret.value.coverage.keywords = <<0, 0>>
    /\ ret.value.coverage.skills = <<0, 0>>
    /\ ret.value.match_score = Some(10000)

-----------------------------------------------------------------------------
(* SpecAnalyze: analyze_resume called with the same arguments in two        *)
(* separately started processes                                             *)

Processes == {1, 2}

AnalyzeJds ==
    {None, Some(Text(<<>>, 0)), Some(Text(JdShort, 0)), Some(Text(JdShortWrapped, 0)),
     Some(Text(JdStem23, 1)), Some(Text(JdStem24, 1)), Some(Text(JdFull, 0)),
     Some(Text(JdUnrelated, 0))}

InitAnalyze ==
    /\ roles = JOB_DATABASE
    /\ synonyms = SKILL_SYNONYMS
    /\ \E s1 \in HashSeeds, s2 \in HashSeeds :
          /\ hash_seed = <<s1, s2>>
          /\ skill_patterns = <<ProcessPatterns(s1), ProcessPatterns(s2)>>
    /\ pc = <<>> /\ request = <<>> /\ response = <<>> /\ uploads = <<>> /\ clock = 0
    /\ locals = [p \in Processes |-> EmptyFrame]
    /\ \E resume_text \in ResumeTexts, job_description \in AnalyzeJds :
          call = [fn |-> "analyze_resume",
                  resume_text |-> resume_text,
                  job_description |-> job_description]
    /\ ret = [p \in Processes |-> NotRun]

\* the call in process p runs from its first statement to its return
CallAnalyzeResume(p) ==
    /\ call.fn = "analyze_resume"
    /\ ~ret[p].done
    /\ LET f == AnalyzeFrame(skill_patterns[p], roles, synonyms, hash_seed[p],
                             call.resume_text, call.job_description)
       IN  /\ locals' = [locals EXCEPT ![p] = f]
           /\ ret' = [ret EXCEPT ![p] = Returned(BuildReport(f))]
    /\ UNCHANGED <<roles, synonyms, hash_seed, skill_patterns, call,
                   pc, request, response, uploads, clock>>

NextAnalyze == \E p \in Processes : CallAnalyzeResume(p)

SpecAnalyze == InitAnalyze /\ [][NextAnalyze]_vars

\* C5: when the extracted skill list is empty, every role with a nonempty
\* required-skill set gets technical_skills score 0, every role with a
\* nonempty tool set gets tools score 0, and the ATS keywords sub-score is 0.
C5_NoSkillsZeroCoverage ==
    \A p \in Processes :
        (ret[p].done /\ locals[p].skill_analysis.skill_list = <<>>) =>
            /\ \A k \in DOMAIN locals[p].role_matches :
                  LET m == locals[p].role_matches[k]
                      role_data == roles[CatalogIndex(m.role)]
                  IN  /\ role_data.skills # <<>> => m.breakdown.technical_skills = 0
                      /\ role_data.tools # <<>> => m.breakdown.tools = 0
            /\ ret[p].value.ats_analysis.breakdown["keywords"] = 0

\* a resume without skills was analysed and matched against the catalog
C5_Witness ==
    \E p \in Processes :
        /\ ret[p].done
        /\ locals[p].skill_analysis.skill_list = <<>>
        /\ Len(locals[p].role_matches) = Len(roles)
        /\ \A k \in DOMAIN roles : roles[k].skills # <<>> /\ roles[k].tools # <<>>

\* the report field holds the "no JD" sentinel of analyze_jd_match
HoldsSentinel(field) ==
    /\ field # None
    /\ field[1].match_score = None
    /\ field[1].analysis = NoJdSentinel.analysis
    /\ field[1].recommendations = <<>>

\* the report field holds a job-description result with a numeric score
HoldsJdResult(field) ==
    /\ field # None
    /\ field[1].match_score # None
    /\ "grade" \in DOMAIN field[1]

\* C7 as stated: the job_description_match field of the report is a real
\* result only when a job description of at least 30 characters was given,
\* and holds the "no JD provided" sentinel in every other case (absent, empty
\* or too short).
C7_SentinelInEveryOtherCase ==
    \A p \in Processes :
        ret[p].done =>
            LET field == ret[p].value.job_description_match
                long_enough == /\ call.job_description # None
                               /\ TextLen(call.job_description[1]) >= 30
            IN  /\ HoldsJdResult(field) => long_enough
                /\ ~long_enough => HoldsSentinel(field)

\* C7, amended: the job_description_match field is a real result exactly when
\* a job description of at least 30 characters after trimming was given; for
\* a non-empty job description with fewer trimmed characters it holds the
\* sentinel, with the tailored tips added to it; for an absent or empty job
\* description it is None.
C7_JdFieldByCase ==
    \A p \in Processes :
        ret[p].done =>
            LET field == ret[p].value.job_description_match
                jd == call.job_description
            IN  IF jd = None \/ TextLen(jd[1]) = 0 THEN field = None
                ELSE IF TrimmedChars(jd[1]) < 30
                THEN /\ HoldsSentinel(field)
                     /\ "tailored_tips" \in DOMAIN field[1]
                ELSE /\ HoldsJdResult(field)
                     /\ "tailored_tips" \in DOMAIN field[1]

\* a report made without a job description has None in the field, and so
\* does not hold the sentinel
C7_Witness ==
    \E p \in Processes :
        /\ ret[p].done
        /\ call.job_description = None
        /\ ret[p].value.job_description_match = None

\* C8: two invocations of analyze_resume with identical resume text and
\* identical job description, in two separately started processes, produce
\* identical reports, the order of every list included.
C8_IdenticalReports ==
    (ret[1].done /\ ret[2].done) => ret[1].value = ret[2].value

\* the lists of recommendations in the report of process p
OverallOf(p)  == ret[p].value.recommendations.overall
ActionsOf(p)  == ret[p].value.recommendations.priority_actions

\* the items of the two lists that the claims below are about
HasTailorAction(p) ==
    \E k \in DOMAIN ActionsOf(p) :
        /\ ActionsOf(p)[k].priority = "HIGH"
        /\ ActionsOf(p)[k].action = "Tailor to Job Description"
HasJdGapsItem(p)  == \E k \in DOMAIN OverallOf(p) : OverallOf(p)[k][1] = "critical_jd_requirements"
HasRoleItem(p)    == \E k \in DOMAIN OverallOf(p) : OverallOf(p)[k][1] = "to_better_match"
HasSkillNudge(p)  == \E k \in DOMAIN OverallOf(p) : OverallOf(p)[k][1] = "expand_skill_set"
HasAtsItems(p)    ==
    \E k \in DOMAIN OverallOf(p) : OverallOf(p)[k][1] \in {"urgent", "important", "great_job"}

\* C15: for every job-description result with a numeric match score s, 0
\* included, the priority actions contain the HIGH "Tailor to Job
\* Description" action exactly when s < 60, and the merged recommendations
\* contain the must-have-gaps item exactly when s < 70 and there are missing
\* must-have skills; with the sentinel or without a job description neither
\* item is there.
C15_JdItemsByScore ==
    \A p \in Processes :
        ret[p].done =>
            LET jd == ret[p].value.job_description_match
            IN  IF jd # None /\ jd[1].match_score # None
                THEN /\ HasTailorAction(p) <=> jd[1].match_score[1] < 6000
                     /\ HasJdGapsItem(p) <=>
                           (/\ jd[1].match_score[1] < 7000
                            /\ jd[1].missing.must_have_skills # <<>>)
                ELSE ~HasTailorAction(p) /\ ~HasJdGapsItem(p)

\* C16: the merged recommendations have at most 10 items; the ATS priority
\* items are there exactly when the ATS score is below 70, the item about the
\* top-ranked role exactly when that role's score is below 70, the skill
\* nudge exactly when fewer than 10 skills were found; and the item about the
\* role names at least one missing critical skill.
C16_MergedRecommendations ==
    \A p \in Processes :
        ret[p].done =>
            LET top_roles == locals[p].top_roles
            IN  /\ Len(OverallOf(p)) <= 10
                /\ HasAtsItems(p) <=> ret[p].value.ats_analysis.overall_score < 7000
                /\ HasRoleItem(p) <=>
                      (top_roles # <<>> /\ top_roles[1].overall_score < 7000)
                /\ HasSkillNudge(p) <=> ret[p].value.skills.total_skills < 10
                /\ \A k \in DOMAIN OverallOf(p) :
                      OverallOf(p)[k][1] = "to_better_match" => OverallOf(p)[k][3] # <<>>

-----------------------------------------------------------------------------
(* SpecConcurrent: two calls of analyze_resume in one process, on the same
   service objects, interleaved at the seven numbered steps of the function *)

Calls == {1, 2}

AnalyzeCall(resume_text, job_description) ==
    [fn |-> "analyze_resume",
     resume_text |-> resume_text,
     job_description |-> job_description]

FirstCalls ==
    {AnalyzeCall(Text(ResumeRich, 0), Some(Text(JdFull, 0))),
     AnalyzeCall(Text(ResumeOneSkill, 0), None)}

SecondCalls ==
    {AnalyzeCall(Text(ResumeOneSkill, 0), Some(Text(JdFull, 0))),
     AnalyzeCall(Text(ResumeRich, 0), Some(Text(JdShort, 0)))}

InitConcurrent ==
    /\ roles = JOB_DATABASE
    /\ synonyms = SKILL_SYNONYMS
    /\ \E seed \in HashSeeds :
          /\ hash_seed = <<seed>>
          /\ skill_patterns = <<ProcessPatterns(seed)>>
    /\ \E first \in FirstCalls, second \in SecondCalls : call = <<first, second>>
    /\ pc = [i \in Calls |-> "step1"]
    /\ locals = [i \in Calls |-> [frame |-> EmptyFrame]]
    /\ ret = [i \in Calls |-> NotRun]
    /\ request = <<>> /\ response = <<>> /\ uploads = <<>> /\ clock = 0

\* one step of call i leaves frame f
AnalyzeStep(i, from, to, f) ==
    /\ pc[i] = from
    /\ locals' = [locals EXCEPT ![i].frame = f]
    /\ pc' = [pc EXCEPT ![i] = to]
    /\ UNCHANGED <<roles, synonyms, hash_seed, skill_patterns, call,
                   request, response, uploads, clock>>

Step1(i) ==
    /\ AnalyzeStep(i, "step1", "step2",
                   StepExtract(Frame(i), skill_patterns[1], synonyms,
                               call[i].resume_text))
    /\ UNCHANGED ret

Step2(i) ==
    /\ AnalyzeStep(i, "step2", "step3",
                   StepSections(Frame(i), call[i].resume_text))
    /\ UNCHANGED ret

Step3(i) ==
    /\ AnalyzeStep(i, "step3", "step4", StepAts(Frame(i), call[i].resume_text))
    /\ UNCHANGED ret

Step4(i) ==
    /\ AnalyzeStep(i, "step4", "step5", StepRoles(Frame(i), roles, synonyms))
    /\ UNCHANGED ret

Step5(i) ==
    /\ AnalyzeStep(i, "step5", "step6",
                   StepJd(Frame(i), hash_seed[1], call[i].resume_text,
                          call[i].job_description))
    /\ UNCHANGED ret

Step6(i) ==
    /\ AnalyzeStep(i, "step6", "step7", StepRecommend(Frame(i)))
    /\ UNCHANGED ret

Step7(i) ==
    /\ AnalyzeStep(i, "step7", "return", StepHealth(Frame(i)))
    /\ UNCHANGED ret

\* the return statement builds the report from the local variables
Return(i) ==
    /\ pc[i] = "return"
    /\ ret' = [ret EXCEPT ![i] = Returned(BuildReport(Frame(i)))]
    /\ pc' = [pc EXCEPT ![i] = "done"]
    /\ UNCHANGED <<roles, synonyms, hash_seed, skill_patterns, call,
                   locals, request, response, uploads, clock>>

NextConcurrent ==
    \E i \in Calls :
        \/ Step1(i) \/ Step2(i) \/ Step3(i) \/ Step4(i)
        \/ Step5(i) \/ Step6(i) \/ Step7(i) \/ Return(i)

SpecConcurrent == InitConcurrent /\ [][NextConcurrent]_vars

\* the report that analyze_resume gives for the arguments of call i when
\* nothing else runs
ReportAlone(i) ==
    AnalyzeResume(skill_patterns[1], JOB_DATABASE, SKILL_SYNONYMS,
                  hash_seed[1], call[i].resume_text, call[i].job_description)

\* C9: two calls of analyze_resume that run concurrently on the shared
\* service objects, in any interleaving, each return the report they would
\* return alone; no step changes the role catalog, the synonym table or the
\* compiled skill patterns, and a step of one call changes only that call's
\* own local variables and result.
C9_ConcurrentCallsIndependent ==
    /\ [](\A i \in Calls : pc[i] = "done" =>
             ret[i].done /\ ret[i].value = ReportAlone(i))
    /\ [][/\ roles' = roles /\ roles = JOB_DATABASE
          /\ synonyms' = synonyms /\ synonyms = SKILL_SYNONYMS
          /\ skill_patterns' = skill_patterns
          /\ \A i \in Calls :
                pc'[i] = pc[i] => locals'[i] = locals[i] /\ ret'[i] = ret[i]]_vars

\* the first call has returned its report while the second call, for another
\* resume, is halfway through its steps and holds its own partial results
C9_Witness ==
    /\ pc[1] = "done" /\ ret[1].done
    /\ pc[2] = "step4" /\ locals[2].frame # EmptyFrame
    /\ locals[2].frame # locals[1].frame
    /\ call[1].resume_text # call[2].resume_text

-----------------------------------------------------------------------------
(* Spec: two /analyze requests. The handler is cut at its calls into the
   parser and the analysis service, and the two requests interleave at those
   cuts; the files they upload live in one directory and take their names
   from the clock. *)

FileRich ==
    <<" ", " ", "Summary", ":", " ", "engineer", " ", "with", " ", "5", " ",
      "years", " ", "of", " ", "experience", " ", "in", " ", "java", " ",
      "and", " ", "rust", ".", "\n", "Built", " ", "tools", " ", "with", " ",
      "docker", ";", "\t", "increased", " ", "sales", " ", "by", " ", "20",
      "%", ".", "\n", "Education", ":", " ", "BS", " ", "in", " ", "Physics",
      " ", "2015", ".", "\n", "Skills", ":", " ", "python", ",", " ", "aws",
      ".", "\n", "a", "@", "b", ".", "co", "\n">>

FileOneSkill ==
    <<"Skills", ":", " ", "python", ".", " ", " ", "Experience", " ", "in",
      " ", "teamwork", ";", " ", "managed", " ", "12", " ", "projects", ".",
      " ", " ", "jane", "@", "x", ".", "org", " ", "lorem", "\n", "\n">>

FileTooShort ==
    <<"Skills", ":", " ", "python", " ", "2019">>

FileNotResume ==
    <<"ipsum", " ", "dolor", " ", "sit", " ", "amet", " ", "consectetur",
      " ", "adipiscing", " ", "elit", " ", "sed", " ", "do", " ", "eiusmod",
      " ", "tempor">>

Requests == {1, 2}

\* how far the clock (in seconds) runs while the requests are served
MaxClock == 1

Upload(filename, readable, text, job_description) ==
    [filename |-> filename,
     file |-> [readable |-> readable, text |-> Text(text, 0)],
     job_description |-> job_description]

FirstUploads ==
    {Upload(<<"cv", ".", "txt">>, TRUE, FileRich, Some(Text(<<>>, 0))),
     Upload(<<"cv", ".", "txt">>, TRUE, FileNotResume, Some(Text(JdFull, 0))),
     Upload(<<>>, TRUE, FileRich, None)}

SecondUploads ==
    {Upload(<<"cv", ".", "txt">>, TRUE, FileOneSkill, Some(Text(JdFull, 0))),
     Upload(<<"cv", ".", "txt">>, TRUE, FileTooShort, None),
     Upload(<<"cv", ".", "exe">>, TRUE, FileRich, None),
     Upload(<<"me", ".", "PDF">>, FALSE, FileRich, None)}

Init ==
    /\ roles = JOB_DATABASE
    /\ synonyms = SKILL_SYNONYMS
    /\ \E seed \in HashSeeds :
          /\ hash_seed = <<seed>>
          /\ skill_patterns = <<ProcessPatterns(seed)>>
    /\ \E first \in FirstUploads, second \in SecondUploads :
          request = <<first, second>>
    /\ pc = [i \in Requests |-> "receive"]
    /\ locals = [i \in Requests |-> HandlerLocals]
    /\ call = [i \in Requests |-> <<>>]
    /\ ret = [i \in Requests |-> NotRun]
    /\ response = [i \in Requests |-> None]
    /\ uploads = <<>>
    /\ clock = 0

\* a call of the handler into a collaborator, and whether it let the handler
\* go on
Called(fn, ok) == [fn |-> fn, ok |-> ok]

\* time passes; the clock is read only when a request is received
Tick ==
    /\ clock < MaxClock
    /\ \E i \in Requests : pc[i] = "receive"
    /\ clock' = clock + 1
    /\ UNCHANGED <<roles, synonyms, hash_seed, skill_patterns, call, ret,
                   pc, request, locals, response, uploads>>

\* the handler up to extract_text: the file name is checked and the upload is
\* written under UPLOAD_DIR
Receive(i) ==
    /\ pc[i] = "receive"
    /\ IF request[i].filename = <<>>
       THEN /\ locals' = [locals EXCEPT ![i].detail = Some("No file provided")]
            /\ pc' = [pc EXCEPT ![i] = "reject"]
            /\ UNCHANGED uploads
       ELSE LET file_path == UploadPath(clock, request[i].filename)
            IN  /\ locals' = [locals EXCEPT ![i].file_path = Some(file_path)]
                /\ uploads' = WriteFile(uploads, file_path, request[i].file)
                /\ pc' = [pc EXCEPT ![i] = "extract"]
    /\ UNCHANGED <<roles, synonyms, hash_seed, skill_patterns, call, ret,
                   request, response, clock>>

\* resume_parser.extract_text(file_path, file.filename) and the test of
\* parse_error
Extract(i) ==
    /\ pc[i] = "extract"
    /\ LET r == ExtractText(uploads, locals[i].file_path[1], request[i].filename)
       IN  /\ locals' = [locals EXCEPT ![i].extracted_text = r.text,
                                       ![i].detail = r.error]
           /\ call' = [call EXCEPT
                         ![i] = Append(@, Called("extract_text", r.error = None))]
           /\ pc' = [pc EXCEPT ![i] = AfterExtract(r.error)]
    /\ UNCHANGED <<roles, synonyms, hash_seed, skill_patterns, ret,
                   request, response, uploads, clock>>

\* resume_parser.validate_resume(extracted_text) and the test of is_valid
Validate(i) ==
    /\ pc[i] = "validate"
    /\ LET r == ValidateResume(locals[i].extracted_text)
       IN  /\ locals' = [locals EXCEPT ![i].detail = r.error]
           /\ call' = [call EXCEPT
                         ![i] = Append(@, Called("validate_resume", r.is_valid))]
           /\ pc' = [pc EXCEPT ![i] = AfterValidate(r.is_valid)]
    /\ UNCHANGED <<roles, synonyms, hash_seed, skill_patterns, ret,
                   request, response, uploads, clock>>

\* resume_analysis_service.analyze_resume(extracted_text, job_description)
Analyze(i) ==
    /\ pc[i] = "analyze"
    /\ LET f == AnalyzeFrame(skill_patterns[1], roles, synonyms, hash_seed[1],
                             locals[i].extracted_text,
                             JdArgument(request[i].job_description))
       IN  /\ locals' = [locals EXCEPT ![i].frame = f]
           /\ ret' = [ret EXCEPT ![i] = Returned(BuildReport(f))]
    /\ call' = [call EXCEPT ![i] = Append(@, Called("analyze_resume", TRUE))]
    /\ pc' = [pc EXCEPT ![i] = "metadata"]
    /\ UNCHANGED <<roles, synonyms, hash_seed, skill_patterns,
                   request, response, uploads, clock>>

\* the handler after analyze_resume: os.path.getsize(file_path) raises when
\* the file is gone, and the handler then answers success=False; otherwise the
\* metadata is added, the cleanup is scheduled and the report is the answer
Respond(i) ==
    /\ pc[i] = "metadata"
    /\ LET file_path == locals[i].file_path[1]
       IN  IF file_path \in DOMAIN uploads
           THEN /\ response' =
                      [response EXCEPT
                         ![i] = Some([status |-> 200, success |-> TRUE,
                                      data |-> ret[i].value,
                                      metadata |->
                                        Metadata(request[i].filename,
                                                 uploads[file_path],
                                                 locals[i].extracted_text)])]
                /\ locals' = [locals EXCEPT ![i].cleanup = "scheduled"]
           ELSE /\ response' =
                      [response EXCEPT
                         ![i] = Some([status |-> 200, success |-> FALSE,
                                      error |-> "Analysis failed"])]
                /\ UNCHANGED locals
    /\ pc' = [pc EXCEPT ![i] = "done"]
    /\ UNCHANGED <<roles, synonyms, hash_seed, skill_patterns, call, ret,
                   request, uploads, clock>>

\* `except HTTPException`: the cleanup is scheduled if the file is there, and
\* the exception is raised again, which answers 400 with its detail
Reject(i) ==
    /\ pc[i] = "reject"
    /\ response' = [response EXCEPT
                      ![i] = Some([status |-> 400, success |-> FALSE,
                                   detail |-> locals[i].detail[1]])]
    /\ locals' = [locals EXCEPT
                    ![i].cleanup =
                        IF /\ locals[i].file_path # None
                           /\ locals[i].file_path[1] \in DOMAIN uploads
                        THEN "scheduled" ELSE "none"]
    /\ pc' = [pc EXCEPT ![i] = "done"]
    /\ UNCHANGED <<roles, synonyms, hash_seed, skill_patterns, call, ret,
                   request, uploads, clock>>

\* the background task cleanup_file(file_path), some time after the answer
Cleanup(i) ==
    /\ pc[i] = "done"
    /\ locals[i].cleanup = "scheduled"
    /\ uploads' = RemoveFile(uploads, locals[i].file_path[1])
    /\ locals' = [locals EXCEPT ![i].cleanup = "ran"]
    /\ UNCHANGED <<roles, synonyms, hash_seed, skill_patterns, call, ret,
                   pc, request, response, clock>>

Next ==
    \/ Tick
    \/ \E i \in Requests :
          \/ Receive(i) \/ Extract(i) \/ Validate(i) \/ Analyze(i)
          \/ Respond(i) \/ Reject(i) \/ Cleanup(i)

Spec == Init /\ [][Next]_vars

HasCalled(i, fn) == \E k \in DOMAIN call[i] : call[i][k].fn = fn

\* C10: the handler calls analyze_resume only after extract_text returned
\* no error and then validate_resume accepted the text; when either fails the
\* request is answered with a rejection and analyze_resume is not called.
C10_AnalyzeOnlyAfterExtractAndValidate ==
    \A i \in Requests :
        /\ HasCalled(i, "analyze_resume") =>
              call[i] = <<Called("extract_text", TRUE),
                          Called("validate_resume", TRUE),
                          Called("analyze_resume", TRUE)>>
        /\ (\E k \in DOMAIN call[i] : ~call[i][k].ok) =>
              /\ ~HasCalled(i, "analyze_resume")
              /\ ~ret[i].done
              /\ pc[i] \in {"reject", "done"}
              /\ pc[i] = "done" =>
                    /\ response[i] # None
                    /\ response[i][1].status = 400
                    /\ ~response[i][1].success

\* one request was analysed and answered, the other was rejected by the
\* validation
C10_Witness ==
    \E i, j \in Requests :
        /\ HasCalled(i, "analyze_resume") /\ pc[i] = "done"
        /\ response[i][1].success
        /\ call[j] = <<Called("extract_text", TRUE),
                       Called("validate_resume", FALSE)>>
        /\ pc[j] = "done" /\ response[j][1].status = 400

\* the steps of the handler that still have to read the saved file
\* (extract_text) or to stat it (os.path.getsize)
BeforeLastRead == {"extract", "validate", "analyze", "metadata"}

\* C30: under any interleaving of the requests, the saved file of a request
\* that still has to read or stat it is in the uploads directory (no cleanup
\* of another request has removed it), and the file a request is about to
\* extract text from holds the bytes that request uploaded.
C30_OwnBytesAndNoForeignCleanup ==
    \A i \in Requests :
        pc[i] \in BeforeLastRead =>
            /\ locals[i].file_path[1] \in DOMAIN uploads
            /\ pc[i] = "extract" =>
                  uploads[locals[i].file_path[1]] = request[i].file

-----------------------------------------------------------------------------
(* SpecValidate: validate_resume applied to texts around the length limit,
   with every combination of the four indicators *)

\* how many filler words the tail of a text has at most
MaxValidatePad == 8

\* one atom for each indicator of validate_resume, in the order of the list
IndicatorAtoms == <<"Work", "2015", "@", "School">>

\* words that are no indicator: plain fillers of every length from 1 to 6,
\* a longer word that starts with an indicator word, and a 5-digit number
FillerAtoms == {"a", "ab", "abc", "abcd", "works", "abcdef", "20155", "schools"}

ValidateText(present, filler, pad) ==
    Text(Flatten([k \in 1..4 |-> IF k \in present
                                 THEN <<IndicatorAtoms[k], " ">> ELSE <<>>])
         \o <<filler>>, pad)

InitValidate ==
    /\ roles = JOB_DATABASE
    /\ synonyms = SKILL_SYNONYMS
    /\ NoProcess
    /\ NoFlow
    /\ uploads = <<>>
    /\ clock = 0
    /\ \/ call = [fn |-> "validate_resume", text |-> Text(<<>>, 0)]
       \/ \E present \in SUBSET (1..4), filler \in FillerAtoms,
             pad \in 0..MaxValidatePad :
             call = [fn |-> "validate_resume",
                     text |-> ValidateText(present, filler, pad)]
    /\ ret = NotRun

CallValidateResume ==
    /\ call.fn = "validate_resume"
    /\ ~ret.done
    /\ ret' = Returned(ValidateResume(call.text))
    /\ UNCHANGED <<roles, synonyms, hash_seed, skill_patterns, call,
                   pc, request, locals, response, uploads, clock>>

NextValidate == CallValidateResume

SpecValidate == InitValidate /\ [][NextValidate]_vars

\* how many of the four indicators match the text
IndicatorCount(t) ==
    Cardinality({k \in 1..4 : ResumeIndicators(t)[k]})

\* C11: validate_resume returns valid exactly when the text has at least 50
\* characters and at least 2 of the 4 indicators match; it returns an error
\* message with every invalid verdict and none with a valid one.
C11_ValidIffLongAndTwoIndicators ==
    ret.done =>
        /\ ret.value.is_valid <=>
              (TextLen(call.text) >= 50 /\ IndicatorCount(call.text) >= 2)
        /\ ret.value.is_valid => ret.value.error = None
        /\ ~ret.value.is_valid =>
              /\ ret.value.error # None
              /\ ret.value.error[1] # ""

\* a text of exactly 50 characters with exactly two indicators was found
\* valid
C11_Witness ==
    /\ ret.done
    /\ call.fn = "validate_resume"
    /\ TextLen(call.text) = 50
    /\ IndicatorCount(call.text) = 2
    /\ ret.value.is_valid
    /\ ret.value.error = None

-----------------------------------------------------------------------------
(* SpecRequest: one /analyze request, served alone; analyze_resume may raise
   at any of its seven steps *)

\* 20 words in 45 characters, three of the four indicators among them
File20Short ==
    <<"work", " ", "2015", " ", "@", " ", "a", " ", "b", " ", "c", " ", "d",
      " ", "e", " ", "f", " ", "g", " ", "h", " ", "i", " ", "j", " ", "k",
      " ", "l", " ", "m", " ", "n", " ", "o", " ", "p", " ", "q">>

\* 20 words in more than 50 characters that read like a resume
File20Valid ==
    <<"Skills", ":", " ", "python", ",", " ", "aws", ".", " ", "Managed", " ",
      "12", " ", "projects", " ", "in", " ", "2019", " ", "at", " ", "Acme",
      " ", "University", " ", "with", " ", "docker", " ", "and", " ", "java",
      ".", " ", "Increased", " ", "sales", " ", "by", " ", "20", "%", ".",
      " ", "jane", "@", "x", ".", "org">>

\* 20 words in more than 50 characters with no indicator among them
File20NotResume ==
    <<"ipsum", " ", "dolor", " ", "sit", " ", "amet", " ", "consectetur",
      " ", "adipiscing", " ", "elit", " ", "sed", " ", "do", " ", "eiusmod",
      " ", "tempor", " ", "incididunt", " ", "ut", " ", "labore", " ", "et",
      " ", "dolore", " ", "magna", " ", "aliqua", " ", "ut", " ", "enim">>

RequestUploads ==
    {Upload(<<"cv", ".", "txt">>, TRUE, FileRich, Some(Text(JdFull, 0))),
     Upload(<<"cv", ".", "txt">>, TRUE, FileOneSkill, None),
     Upload(<<"cv", ".", "txt">>, TRUE, File20Short, None),
     Upload(<<"cv", ".", "txt">>, TRUE, File20Valid, Some(Text(JdShort, 0))),
     Upload(<<"cv", ".", "txt">>, TRUE, File20NotResume, None),
     Upload(<<"cv", ".", "exe">>, TRUE, FileRich, None),
     Upload(<<"me", ".", "PDF">>, FALSE, FileRich, None),
     Upload(<<>>, TRUE, File20Valid, None)}

InitRequest ==
    /\ roles = JOB_DATABASE
    /\ synonyms = SKILL_SYNONYMS
    /\ \E seed \in HashSeeds :
          /\ hash_seed = <<seed>>
          /\ skill_patterns = <<ProcessPatterns(seed)>>
    /\ \E upload \in RequestUploads : request = <<upload>>
    /\ pc = <<"receive">>
    /\ locals = <<HandlerLocals>>
    /\ call = <<(<<>>)>>
    /\ ret = <<NotRun>>
    /\ response = <<None>>
    /\ uploads = <<>>
    /\ clock = 0

\* analyze_resume raises in its step n: the results of the steps before are
\* in its local variables, and nothing is returned
AnalyzeRaises(i) ==
    /\ pc[i] = "analyze"
    /\ \E n \in 1..7 :
          /\ locals' =
               [locals EXCEPT
                  ![i].frame = RunSteps(n - 1, skill_patterns[1], roles, synonyms,
                                        hash_seed[1], locals[i].extracted_text,
                                        JdArgument(request[i].job_description)),
                  ![i].detail = Some(n)]
          /\ call' = [call EXCEPT ![i] = Append(@, Called("analyze_resume", FALSE))]
    /\ pc' = [pc EXCEPT ![i] = AfterAnalyze(TRUE)]
    /\ UNCHANGED <<roles, synonyms, hash_seed, skill_patterns, ret,
                   request, response, uploads, clock>>

\* `except Exception`: the cleanup is scheduled if the file is there and the
\* caller gets the failure response
RespondFailure(i) ==
    /\ pc[i] = "failed"
    /\ response' = [response EXCEPT ![i] = Some(AnalysisFailed(locals[i].detail[1]))]
    /\ locals' = [locals EXCEPT
                    ![i].cleanup =
                        IF /\ locals[i].file_path # None
                           /\ locals[i].file_path[1] \in DOMAIN uploads
                        THEN "scheduled" ELSE "none"]
    /\ pc' = [pc EXCEPT ![i] = "done"]
    /\ UNCHANGED <<roles, synonyms, hash_seed, skill_patterns, call, ret,
                   request, uploads, clock>>

\* the one request of this specification
OneRequest == {1}

NextRequest ==
    \E i \in OneRequest :
        \/ Receive(i) \/ Extract(i) \/ Validate(i) \/ Analyze(i)
        \/ AnalyzeRaises(i) \/ Respond(i) \/ RespondFailure(i)
        \/ Reject(i) \/ Cleanup(i)

SpecRequest == InitRequest /\ [][NextRequest]_vars

\* the text that extract_text hands to the handler for the file of request i
CleanedUpload(i) == CleanText(request[i].file.text)

TooShort == Some("Text too short to be a valid resume")

\* C12 as stated: every text of 20 words fails validate_resume as too short,
\* and analyze_resume is not called for it.
C12_TwentyWordsTooShort ==
    \A i \in DOMAIN pc :
        WordCount(CleanedUpload(i)) = 20 =>
            /\ HasCalled(i, "validate_resume") =>
                  /\ ~call[i][2].ok
                  /\ ValidateResume(CleanedUpload(i)).error = TooShort
            /\ ~HasCalled(i, "analyze_resume")

\* C12, amended: validate_resume measures characters, not words.  A text of
\* 20 words with fewer than 50 characters is too short for validate_resume,
\* and the request that uploads it is rejected (by extract_text, which has
\* the same limit) without validate_resume or analyze_resume being called; a
\* text of 20 words with 50 or more characters is never called too short: it
\* is valid when two indicators match, and then the request goes on to call
\* analyze_resume.
C12_FiftyCharactersNotTwentyWords ==
    \A i \in DOMAIN pc :
        (request[i].filename = <<"cv", ".", "txt">>
         /\ WordCount(CleanedUpload(i)) = 20) =>
            IF TextLen(CleanedUpload(i)) < 50
            THEN /\ ValidateResume(CleanedUpload(i)).error = TooShort
                 /\ ~HasCalled(i, "validate_resume")
                 /\ ~HasCalled(i, "analyze_resume")
                 /\ ~ret[i].done
                 /\ pc[i] = "done" => response[i][1].status = 400
            ELSE /\ ValidateResume(CleanedUpload(i)).error # TooShort
                 /\ HasCalled(i, "validate_resume") =>
                       call[i][2].ok = (IndicatorCount(CleanedUpload(i)) >= 2)
                 /\ (pc[i] = "done" /\ IndicatorCount(CleanedUpload(i)) >= 2) =>
                       HasCalled(i, "analyze_resume")

\* a request with a text of 20 words and fewer than 50 characters has been
\* rejected without a call of analyze_resume
C12_Witness ==
    \E i \in DOMAIN pc :
        /\ WordCount(CleanedUpload(i)) = 20
        /\ TextLen(CleanedUpload(i)) < 50
        /\ pc[i] = "done"
        /\ response[i] # None /\ response[i][1].status = 400
        /\ call[i] = <<Called("extract_text", FALSE)>>

\* C14: when a step of analyze_resume raises during a request, the caller
\* gets the analysis-failure response: success is false, there is an error
\* message, no report and no part of one is in it, and the request does not
\* go on to a success response.
C14_FailureResponseWithoutReport ==
    \A i \in DOMAIN pc :
        HasCalled(i, "analyze_resume") /\ ~call[i][Len(call[i])].ok =>
            /\ ~ret[i].done
            /\ pc[i] \in {"failed", "done"}
            /\ pc[i] = "done" =>
                  /\ response[i] # None
                  /\ ~response[i][1].success
                  /\ "error" \in DOMAIN response[i][1]
                  /\ response[i][1].error # <<>>
                  /\ DOMAIN response[i][1] = {"status", "success", "error"}

\* analyze_resume raised in its step 6, after the role matching and the job
\* description matching had produced results, and the caller got the failure
\* response
C14_Witness ==
    \E i \in DOMAIN pc :
        /\ call[i] = <<Called("extract_text", TRUE), Called("validate_resume", TRUE),
                       Called("analyze_resume", FALSE)>>
        /\ locals[i].detail = Some(6)
        /\ locals[i].frame.top_roles # <<>>
        /\ locals[i].frame.jd_analysis # None
        /\ pc[i] = "done"
        /\ ~response[i][1].success

-----------------------------------------------------------------------------
(* SpecMetrics: extract_metrics applied to sentences that report a
   measurement in different wordings *)

MetricHead ==
    <<"Built", " ", "and", " ", "deployed", " ", "a", " ", "Python", "-",
      "based", " ", "ETL", " ", "pipeline", " ">>

MetricVerbs == {"reducing", "reduced", "Increased", "improved", "grew"}

MetricMiddles ==
    {<<" ", "processing", " ", "time", " ", "by", " ">>, <<" ", "by", " ">>, <<" ">>}

MetricNumbers == {<<"35", "%">>, <<"3", ".", "5", "%">>, <<"35">>, <<"1", ",", "200">>}

MetricTail ==
    <<".", " ", "AWS", " ", "Certified", " ", "Developer", ".", " ", "email",
      ":", " ", "a", "@", "b", ".", "com", ",", " ", "linkedin", ".", "com",
      "/", "in", "/", "x">>

MetricTails == {MetricTail, <<" ", "reduction", ".">>, <<" ", "users", ".">>}

\* "Built and deployed a Python-based ETL pipeline reducing processing time
\* by 35%. AWS Certified Developer. email: a@b.com, linkedin.com/in/x"
ExampleResume ==
    MetricHead \o <<"reducing", " ", "processing", " ", "time", " ", "by", " ",
                    "35", "%">> \o MetricTail

InitMetrics ==
    /\ roles = JOB_DATABASE
    /\ synonyms = SKILL_SYNONYMS
    /\ NoProcess
    /\ NoFlow
    /\ uploads = <<>>
    /\ clock = 0
    /\ \E verb \in MetricVerbs, middle \in MetricMiddles,
          number \in MetricNumbers, tail \in MetricTails :
          call = [fn |-> "extract_metrics",
                  text |-> Text(MetricHead \o <<verb>> \o middle \o number \o tail, 0)]
    /\ ret = NotRun

CallExtractMetrics ==
    /\ call.fn = "extract_metrics"
    /\ ~ret.done
    /\ ret' = Returned(ExtractMetrics(call.text))
    /\ UNCHANGED <<roles, synonyms, hash_seed, skill_patterns, call,
                   pc, request, locals, response, uploads, clock>>

NextMetrics == CallExtractMetrics

SpecMetrics == InitMetrics /\ [][NextMetrics]_vars

\* the metric (a str, as atoms) contains "35%"
Has35Percent(metric) ==
    \E k \in 1..(Len(metric) - 1) :
        EndsWith(metric[k], "35") /\ metric[k + 1] = "%"

\* C13: for the example resume text, extract_metrics returns at least one
\* metric record whose metric contains "35%".
C13_ExampleMetricFound ==
    (ret.done /\ call.text = Text(ExampleResume, 0)) =>
        \E k \in DOMAIN ret.value : Has35Percent(ret.value[k].metric)

-----------------------------------------------------------------------------
(* SpecCategorize: _categorize_requirements applied to bounded inputs *)

\* what stands before the first occurrence of the skill
LeadIndicators ==
    {<<>>, <<"Required", " ">>, <<"Preferred", " ">>,
     <<"Preferred", " ", "but", " ", "required", " ">>}

\* the number of filler words between the lead and the skill: with 15 the
\* lead is inside the reach of the context pattern, with 16 it is cut
GapWords == {0, 15, 16}

\* what follows the first occurrence of the skill
TailIndicators ==
    {<<>>, <<" ", "preferred">>, <<" ", "essential">>,
     <<"\n", "essential", " ", "java">>,
     Flatten([k \in 1..17 |-> <<" ", PadWord>>]) \o <<" ", "mandatory", " ", "java">>}

CategorizeJd(lead, gap, tail) ==
    Text(lead \o Flatten([k \in 1..gap |-> <<PadWord, " ">>])
         \o <<"java", " ", "developer">> \o tail
         \o <<"\n", "go", " ", "team", "\n", "rust", " ", "is", " ", "a", " ", "plus">>, 0)

CategorizeSkills == {<<"java">>, <<"go">>, <<"rust">>}

InitCategorize ==
    /\ roles = JOB_DATABASE
    /\ synonyms = SKILL_SYNONYMS
    /\ NoProcess
    /\ NoFlow
    /\ uploads = <<>>
    /\ clock = 0
    /\ \E lead \in LeadIndicators, gap \in GapWords, tail \in TailIndicators,
          missing_skills \in SUBSET CategorizeSkills :
          call = [fn |-> "_categorize_requirements",
                  jd_text |-> CategorizeJd(lead, gap, tail),
                  missing_skills |-> missing_skills]
    /\ ret = NotRun

CallCategorizeRequirements ==
    /\ call.fn = "_categorize_requirements"
    /\ ~ret.done
    /\ ret' = Returned(CategorizeRequirements(call.jd_text, call.missing_skills))
    /\ UNCHANGED <<roles, synonyms, hash_seed, skill_patterns, call,
                   pc, request, locals, response, uploads, clock>>

NextCategorize == CallCategorizeRequirements

SpecCategorize == InitCategorize /\ [][NextCategorize]_vars

\* the context windows of a skill in the job description of the call
WindowsOf(skill) ==
    Range(SkillContexts(Concat(FullAtoms(LowerText(call.jd_text))), Concat(skill)))

\* C18: the must-have and the nice-to-have skills are disjoint and together
\* they are the missing skills; a skill is must-have exactly when some
\* context window around an occurrence of it holds a must-have indicator,
\* whether or not a nice-to-have indicator is in that or another window; a
\* skill with no indicator in any window is nice-to-have.
C18_MustHaveWinsPartition ==
    ret.done =>
        /\ ret.value.must_have \cap ret.value.nice_to_have = {}
        /\ ret.value.must_have \cup ret.value.nice_to_have = call.missing_skills
        /\ \A skill \in call.missing_skills :
              /\ skill \in ret.value.must_have
                    <=> \E c \in WindowsOf(skill) : AnyIndicator(c, MustHavePatterns)
              /\ (\A c \in WindowsOf(skill) :
                     /\ ~AnyIndicator(c, MustHavePatterns)
                     /\ ~AnyIndicator(c, NicePatterns))
                    => skill \in ret.value.nice_to_have

\* java is must-have although the window that holds "required" holds
\* "preferred" as well, rust is nice-to-have by its indicator and go by default
C18_Witness ==
    /\ ret.done
    /\ call.missing_skills = CategorizeSkills
    /\ \E c \in WindowsOf(<<"java">>) :
          AnyIndicator(c, MustHavePatterns) /\ AnyIndicator(c, NicePatterns)
    /\ \E c \in WindowsOf(<<"rust">>) : AnyIndicator(c, NicePatterns)
    /\ \A c \in WindowsOf(<<"go">>) :
          ~AnyIndicator(c, MustHavePatterns) /\ ~AnyIndicator(c, NicePatterns)
    /\ ret.value.must_have = {<<"java">>}
    /\ ret.value.nice_to_have = {<<"go">>, <<"rust">>}

-----------------------------------------------------------------------------
(* SpecMatch: _calculate_match applied to bounded inputs *)

\* role_data as _calculate_match reads it: a role of the catalog, or one that
\* lists no certifications (role_data.get("certifications", []))
MatchRoleData ==
    {JOB_DATABASE[i] : i \in DOMAIN JOB_DATABASE}
    \cup {[JOB_DATABASE[i] EXCEPT !.certifications = <<>>] : i \in DOMAIN JOB_DATABASE}
    \cup {FrontendDeveloper}

\* the positions of RoleSkillPool a resume of the call may have
MatchSkillPositions == {1, 3, 4, 5, 7}

InitMatch ==
    /\ roles = JOB_DATABASE
    /\ synonyms = SKILL_SYNONYMS
    /\ NoProcess
    /\ NoFlow
    /\ \E role_data \in MatchRoleData, keep \in SUBSET MatchSkillPositions,
          years \in {0, 3, 10, MaxYears}, certs \in RoleCertLists :
          call = [fn |-> "_calculate_match",
                  role_data |-> role_data,
                  extracted_skills |-> SubList(RoleSkillPool, keep),
                  skill_details |-> <<>>,
                  experience_years |-> years,
                  certifications |-> certs,
                  education |-> <<>>]
    /\ ret = NotRun

CallCalculateMatch ==
    /\ call.fn = "_calculate_match"
    /\ ~ret.done
    /\ ret' = Returned(CalculateMatch(synonyms, call.role_data, call.extracted_skills,
                                      call.skill_details, call.experience_years,
                                      call.certifications, call.education))
    /\ UNCHANGED <<roles, synonyms, hash_seed, skill_patterns, call,
                   pc, request, locals, response, uploads, clock>>

NextMatch == CallCalculateMatch

SpecMatch == InitMatch /\ [][NextMatch]_vars

\* no certification of the role is part of a certification of the resume
NoCertMatches ==
    \A p \in Range(call.role_data.certifications) :
        \A u \in Range(call.certifications) : ~StrContains(LowerStr(u), LowerStr(p))

\* 100 x (0.40 skills + 0.25 tools + 0.15 soft skills + 0.10 certifications
\* + 0.10 experience) of a breakdown
WeightedBreakdown(b) ==
    40 * b.technical_skills + 25 * b.tools + 15 * b.soft_skills
    + 10 * b.certifications + 10 * b.experience

\* C19: each of the five breakdown scores is between 0 and 100; the
\* certification score is 50 when the role lists no certifications and 0
\* when it lists some and none matches; the experience score is
\* min(years x 10, 100); the overall score is 0.40 x skills + 0.25 x tools
\* + 0.15 x soft skills + 0.10 x certifications + 0.10 x experience, to the
\* two decimals the scores are reported with, and between 0 and 100.
C19_BreakdownAndOverall ==
    ret.done =>
        LET b == ret.value.breakdown
        IN  /\ \A k \in DOMAIN b : b[k] \in 0..10000
            /\ call.role_data.certifications = <<>> => b.certifications = 5000
            /\ (call.role_data.certifications # <<>> /\ NoCertMatches)
                  => b.certifications = 0
            /\ b.experience = 100 * Min(call.experience_years * 10, 100)
            /\ 100 * ret.value.overall_score - WeightedBreakdown(b) \in -100..100
            /\ ret.value.overall_score \in 0..10000

\* a role without certifications matched against a resume with more than ten
\* years of experience and some of its skills: certifications 50, experience 100
C19_Witness ==
    /\ ret.done
    /\ call.role_data.certifications = <<>>
    /\ call.experience_years > 10
    /\ ret.value.breakdown.certifications = 5000
    /\ ret.value.breakdown.experience = 10000
    /\ ret.value.breakdown.technical_skills \in 1..9999
    /\ ret.value.overall_score > 2000

-----------------------------------------------------------------------------
(* SpecConfidence: _calculate_confidence applied to bounded inputs *)

\* the largest number of matched skills, and of matched tools, of a call
MaxMatched == 4

\* skill and tool scores 0, 20, ..., 100, as fractions of 100
ConfidenceScores == {Frac(k, 5) : k \in 0..5}

ConfidenceCalls ==
    [fn : {"_calculate_confidence"},
     skill_score : ConfidenceScores, tool_score : ConfidenceScores,
     skills_count : 0..MaxMatched, tools_count : 0..MaxMatched]

InitConfidence ==
    /\ roles = JOB_DATABASE
    /\ synonyms = SKILL_SYNONYMS
    /\ NoProcess
    /\ NoFlow
    /\ call \in ConfidenceCalls
    /\ ret = NotRun

CallCalculateConfidence ==
    /\ call.fn = "_calculate_confidence"
    /\ ~ret.done
    /\ ret' = Returned(CalculateConfidence(call.skill_score, call.tool_score,
                                           call.skills_count, call.tools_count))
    /\ UNCHANGED <<roles, synonyms, hash_seed, skill_patterns, call,
                   pc, request, locals, response, uploads, clock>>

NextConfidence == CallCalculateConfidence

SpecConfidence == InitConfidence /\ [][NextConfidence]_vars

\* skill score + tool score of a call, which is twice its avg
ScoreSum(c) ==
    (100 * c.skill_score.n) \div c.skill_score.d
    + (100 * c.tool_score.n) \div c.tool_score.d

\* m of a call: matched skills + matched tools
Matched(c) == c.skills_count + c.tools_count

\* the labels from the lowest to the highest
ConfidenceRank(label) ==
    CASE label = "Very Low" -> 0
      [] label = "Low" -> 1
      [] label = "Medium" -> 2
      [] label = "High" -> 3
      [] label = "Very High" -> 4

\* C20: the confidence label is that of the first rule that holds, in the
\* order avg >= 80 and m >= 8: Very High; avg >= 60 and m >= 5: High;
\* avg >= 40 and m >= 3: Medium; avg >= 20: Low; otherwise Very Low; and no
\* call with an avg and an m that are both lower or equal gets a higher label.
C20_ConfidenceFirstRuleMonotone ==
    ret.done =>
        /\ ret.value =
              (IF ScoreSum(call) >= 160 /\ Matched(call) >= 8 THEN "Very High"
               ELSE IF ScoreSum(call) >= 120 /\ Matched(call) >= 5 THEN "High"
               ELSE IF ScoreSum(call) >= 80 /\ Matched(call) >= 3 THEN "Medium"
               ELSE IF ScoreSum(call) >= 40 THEN "Low"
               ELSE "Very Low")
        /\ \A lower \in ConfidenceCalls :
              (ScoreSum(lower) <= ScoreSum(call) /\ Matched(lower) <= Matched(call))
                 => ConfidenceRank(CalculateConfidence(lower.skill_score,
                                                       lower.tool_score,
                                                       lower.skills_count,
                                                       lower.tools_count))
                       <= ConfidenceRank(ret.value)

\* an avg of 80 or more with only two matches: the first rule that holds is
\* the fourth, and the label is Low
C20_Witness ==
    /\ ret.done
    /\ call.fn = "_calculate_confidence"
    /\ ScoreSum(call) >= 160
    /\ Matched(call) = 2
    /\ ret.value = "Low"

-----------------------------------------------------------------------------
(* SpecSkills: extract_skills applied to texts made of up to three mentions *)

\* the largest number of mentions in a text
MaxMentions == 3

\* what a resume may say of a skill: a canonical name, a variant of one
\* word, variants that hold a shorter skill as a whole word, a catalog skill
\* with no synonyms, each in some letter case
SkillMentions ==
    <<(<<"Skills", ":", " ", "Python">>), <<"python", " ", "programming">>,
      <<"Microsoft", " ", "Azure">>, <<"react", ".", "js">>, <<"py">>,
      <<"Docker">>, <<"node">>>>

\* what may stand between two mentions: a comma, or more than twice the 50
\* characters of a context
MentionSeparators ==
    {<<",", " ">>, <<" ">> \o Flatten([k \in 1..18 |-> <<PadWord, " ">>])}

\* the mentions `picks` joined by `sep`
RECURSIVE JoinMentions(_, _)
JoinMentions(picks, sep) ==
    IF picks = <<>> THEN <<>>
    ELSE IF Len(picks) = 1 THEN SkillMentions[picks[1]]
    ELSE SkillMentions[picks[1]] \o sep \o JoinMentions(Tail(picks), sep)

MentionPicks == UNION {[1..n -> DOMAIN SkillMentions] : n \in 0..MaxMentions}

InitSkills ==
    /\ roles = JOB_DATABASE
    /\ synonyms = SKILL_SYNONYMS
    /\ \E seed \in HashSeeds :
          /\ hash_seed = <<seed>>
          /\ skill_patterns = <<ProcessPatterns(seed)>>
    /\ NoFlow
    /\ \E picks \in MentionPicks, sep \in MentionSeparators :
          call = [fn |-> "extract_skills", text |-> Text(JoinMentions(picks, sep), 0)]
    /\ ret = NotRun

CallExtractSkills ==
    /\ call.fn = "extract_skills"
    /\ ~ret.done
    /\ ret' = Returned(ExtractSkills(skill_patterns[1], synonyms, call.text))
    /\ UNCHANGED <<roles, synonyms, hash_seed, skill_patterns, call,
                   pc, request, locals, response, uploads, clock>>

NextSkills == CallExtractSkills

SpecSkills == InitSkills /\ [][NextSkills]_vars

\* the contexts of the matches of a skill, in the order they are found
ContextsFound(events, skill) ==
    SeqMap(LAMBDA e : e.context, SelectSeq(events, LAMBDA e : e.skill = skill))

\* one of the four section words is in a stored context of the entry
SectionWordStored(d) ==
    \E c \in DOMAIN d.contexts : \E w \in DOMAIN SectionBoostKeywords :
        ContextContains(call.text, d.contexts[c], SectionBoostKeywords[w])

\* C21: every skill found has a count of at least 1, at most 3 stored
\* contexts, which are those of its first matches, and the confidence
\* min(min(0.2 x count, 1.0) + boost, 1.0), within [0, 1], where boost is 0.3
\* when a stored context holds one of the four section words and 0
\* otherwise; high_confidence_skills is exactly the skills with a confidence
\* above 0.7.
C21_MentionCountContextsConfidence ==
    ret.done =>
        LET Holds(events) ==
                /\ \A k \in DOMAIN ret.value.skills :
                      LET d == ret.value.skills[k]
                      IN  /\ d.count >= 1
                          /\ d.count = Len(ContextsFound(events, d.skill))
                          /\ Len(d.contexts) <= 3
                          /\ d.contexts = Take(ContextsFound(events, d.skill), 3)
                          /\ d.confidence =
                                Min(Min(2 * d.count, 10)
                                    + (IF SectionWordStored(d) THEN 3 ELSE 0), 10)
                          /\ d.confidence \in 0..10
                /\ ret.value.high_confidence_skills =
                      SeqMap(LAMBDA d : d.skill,
                             SelectSeq(ret.value.skills, LAMBDA d : d.confidence > 7))
        IN  Holds(SkillMatchEvents(skill_patterns[1], synonyms, call.text))

\* a skill with more than three matches, of which a later one stands next to
\* "Skills" and none of the first three does: three contexts, no boost
C21_Witness ==
    /\ ret.done
    /\ call.fn = "extract_skills"
    /\ \E k \in DOMAIN ret.value.skills :
          /\ ret.value.skills[k].skill = <<"python">>
          /\ ret.value.skills[k].count > 3
          /\ Len(ret.value.skills[k].contexts) = 3
          /\ ~SectionWordStored(ret.value.skills[k])
          /\ ret.value.skills[k].confidence \in 8..10
    /\ \E i \in 1..Len(call.text.atoms) : call.text.atoms[i] = "Skills"
    /\ <<"python">> \in Range(ret.value.high_confidence_skills)

\* the matches of all patterns in the text of the call: the canonical skill
\* and the first and last atom of each
MatchSpans(patterns, text_lower) ==
    UNION {{[skill |-> NormalizeSkill(synonyms, patterns[p]),
             from |-> i, to |-> i + Len(patterns[p]) - 1] :
               i \in Range(FindIter(patterns[p], text_lower))} :
           p \in {p \in DOMAIN patterns : patterns[p][1] \in Range(text_lower)}}

\* the occurrences of known skills in the text that do not lie inside an
\* occurrence of a longer one
DistinctOccurrences(spans) ==
    {s \in spans : ~\E l \in spans : /\ l.from <= s.from /\ s.to <= l.to
                                     /\ l.to - l.from > s.to - s.from}

\* C22: an occurrence of a longer skill or variant that holds a shorter
\* known skill as a whole word adds exactly one mention: the skills found
\* are those with an occurrence outside every longer one, and the count of
\* each is the number of such occurrences.
C22_LongestFirstOneMention ==
    ret.done =>
        LET Holds(distinct) ==
                /\ {d.skill : d \in Range(ret.value.skills)} = {s.skill : s \in distinct}
                /\ \A d \in Range(ret.value.skills) :
                      d.count = Cardinality({s \in distinct : s.skill = d.skill})
        IN  Holds(DistinctOccurrences(MatchSpans(skill_patterns[1],
                                                 LowerStr(call.text.atoms))))

\* the variants listed in the synonym table, lower-cased
ListedVariants ==
    UNION {{LowerStr(v) : v \in Range(synonyms[i].variants)} : i \in DOMAIN synonyms}

\* C23: every name of skill_list is canonical: it is in lower case, it is
\* not a listed variant of any entry of the synonym table, it appears once
\* in the list, and normalising it gives it back unchanged.
C23_SkillListCanonical ==
    ret.done =>
        /\ \A k \in DOMAIN ret.value.skill_list :
              LET name == ret.value.skill_list[k]
              IN  /\ LowerStr(name) = name
                  /\ name \notin ListedVariants
                  /\ NormalizeSkill(synonyms, name) = name
                  /\ \A h \in DOMAIN ret.value.skill_list :
                        ret.value.skill_list[h] = name => h = k
        /\ ret.value.skill_list = SeqMap(LAMBDA d : d.skill, ret.value.skills)

\* "Skills: Python", "py" and "Microsoft Azure" in one text: the two surface
\* forms of python are one entry named python, the upper-case variant of
\* azure is the entry azure
C23_Witness ==
    /\ ret.done
    /\ call.fn = "extract_skills"
    /\ \E i, j, k \in DOMAIN call.text.atoms :
          /\ call.text.atoms[i] = "Python"
          /\ call.text.atoms[j] = "py"
          /\ call.text.atoms[k] = "Microsoft"
    /\ Range(ret.value.skill_list) = {<<"python">>, <<"azure">>}
    /\ Len(ret.value.skill_list) = 2
    /\ \E d \in Range(ret.value.skills) : d.skill = <<"python">> /\ d.count = 2

\* C27: every skill of missing_skills.critical is in missing_skills.all as
\* well, and no skill reported missing is among the matched skills.
C27_CriticalWithinAllMissing ==
    ret.done =>
        LET missing == ret.value.missing_skills
            matched == Range(ret.value.matched_skills.technical)
                       \cup Range(ret.value.matched_skills.tools)
                       \cup Range(ret.value.matched_skills.soft_skills)
        IN  /\ Range(missing.critical) \subseteq Range(missing.all)
            /\ (Range(missing.critical) \cup Range(missing.all)) \cap matched = {}
            /\ Len(missing.critical) <= 5
            /\ Len(missing.all) <= 10

-----------------------------------------------------------------------------
(* SpecCoverage: the matching and the coverage score of one group of
   requirements in _calculate_match *)

\* canonical skills, variants of them and a skill without synonyms
CoverageSkills ==
    {<<"python">>, <<"py">>, <<"aws">>, <<"amazon", " ", "web", " ", "services">>,
     <<"docker">>}

InitCoverage ==
    /\ roles = JOB_DATABASE
    /\ synonyms = SKILL_SYNONYMS
    /\ NoProcess
    /\ pc = <<"match">>
    /\ locals = <<[matched |-> {}, coverage |-> None]>>
    /\ request = <<>> /\ response = <<>> /\ uploads = <<>> /\ clock = 0
    /\ \E required \in SUBSET CoverageSkills, extracted \in SUBSET CoverageSkills :
          call = [fn |-> "_calculate_match",
                  required |-> required,
                  extracted |-> extracted]
    /\ ret = NotRun

\* skills_matched = self._match_with_synonyms(required_skills, extracted_set)
MatchRequired ==
    /\ pc = <<"match">>
    /\ locals' = <<[locals[1] EXCEPT !.matched =
                       MatchWithSynonyms(synonyms, call.required, call.extracted)]>>
    /\ pc' = <<"score">>
    /\ UNCHANGED <<roles, synonyms, hash_seed, skill_patterns, call, ret,
                   request, response, uploads, clock>>

\* self._calculate_coverage_score(skills_matched, required_skills)
ScoreCoverage ==
    /\ pc = <<"score">>
    /\ locals' = <<[locals[1] EXCEPT !.coverage =
                       Some(CalculateCoverageScore(locals[1].matched, call.required))]>>
    /\ ret' = Returned(CalculateCoverageScore(locals[1].matched, call.required))
    /\ pc' = <<"done">>
    /\ UNCHANGED <<roles, synonyms, hash_seed, skill_patterns, call,
                   request, response, uploads, clock>>

NextCoverage == MatchRequired \/ ScoreCoverage

SpecCoverage == InitCoverage /\ [][NextCoverage]_vars

\* C28: _match_with_synonyms returns a subset of the required set whatever
\* the two sets are, so there are never more matched than required skills
\* and the coverage score is |matched| / |required|, 1 for an empty required
\* set, without a bonus.
C28_MatchedWithinRequired ==
    /\ locals[1].matched \subseteq call.required
    /\ Cardinality(locals[1].matched) <= Cardinality(call.required)
    /\ ret.done =>
          /\ ret.value.n * Cardinality(call.required)
                = ret.value.d * Cardinality(locals[1].matched)
                \/ (call.required = {} /\ ret.value.n = ret.value.d)
          /\ call.required = {} => ret.value.n = ret.value.d
          /\ ret.value.n <= ret.value.d

\* more skills extracted than required, one requirement met through the
\* synonym table and one not met
C28_Witness ==
    /\ ret.done
    /\ pc = <<"done">>
    /\ Cardinality(call.extracted) > Cardinality(call.required)
    /\ locals[1].matched # {}
    /\ locals[1].matched # call.required
    /\ locals[1].matched \cap call.extracted = {}
    /\ 2 * ret.value.n = ret.value.d

-----------------------------------------------------------------------------
(* SpecAnalyzeJd: analyze_resume called with resumes and job descriptions
   that name technologies, some by a variant of the canonical name *)

TechResumeHead ==
    <<"Developer", " ", "with", " ", "5", " ", "years", " ", "of", " ",
      "experience", ".", " ", "Skills", ":", " ">>

TechResumes ==
    {Text(TechResumeHead \o <<"node", ",", " ", "scrum", ",", " ", "java">>, 0),
     Text(TechResumeHead \o <<"Node", ".", "js", ",", " ", "Agile">>, 0),
     Text(TechResumeHead \o <<"java", ",", " ", "python">>, 0),
     Text(TechResumeHead \o <<"scrum", ",", " ", "git">>, 0)}

TechJds ==
    {Some(Text(<<"We", " ", "build", " ", "services", " ", "with", " ", "node",
                 " ", "and", " ", "java", ";", " ", "the", " ", "team", " ",
                 "works", " ", "in", " ", "scrum", " ", "sprints">>, 0)),
     Some(Text(<<"Looking", " ", "for", " ", "java", " ", "and", " ", "python",
                 " ", "developers", " ", "for", " ", "our", " ", "platform",
                 " ", "team">>, 0)),
     Some(Text(<<"Required", " ", "skills", ":", " ", "node", ",", " ", "scrum",
                 ",", " ", "git", ",", " ", "teamwork", " ", "and", " ",
                 "curiosity">>, 0)),
     Some(Text(<<"Frontend", " ", "work", " ", "in", " ", "javascript", " ",
                 "and", " ", "git", " ", "within", " ", "an", " ", "agile",
                 " ", "team">>, 0))}

InitAnalyzeJd ==
    /\ roles = JOB_DATABASE
    /\ synonyms = SKILL_SYNONYMS
    /\ \E s1 \in HashSeeds, s2 \in HashSeeds :
          /\ hash_seed = <<s1, s2>>
          /\ skill_patterns = <<ProcessPatterns(s1), ProcessPatterns(s2)>>
    /\ pc = <<>> /\ request = <<>> /\ response = <<>> /\ uploads = <<>> /\ clock = 0
    /\ locals = [p \in Processes |-> EmptyFrame]
    /\ \E resume_text \in TechResumes, job_description \in TechJds :
          call = [fn |-> "analyze_resume",
                  resume_text |-> resume_text,
                  job_description |-> job_description]
    /\ ret = [p \in Processes |-> NotRun]

NextAnalyzeJd == \E p \in Processes : CallAnalyzeResume(p)

SpecAnalyzeJd == InitAnalyzeJd /\ [][NextAnalyzeJd]_vars

\* the technology keywords of the job description that the resume of the
\* call has as a whole word
SharedTechKeywords ==
    {k \in Range(TechKeywords) :
        /\ TextContains(LowerText(call.job_description[1]), k)
        /\ FindIter(k, LowerStr(call.resume_text.atoms)) # <<>>}

\* C29: a skill the job description requires and the resume mentions
\* verbatim is counted as matched: every technology keyword of the job
\* description that is a whole word of the resume text is among the matched
\* skills of the result.
C29_VerbatimSkillMatched ==
    \A p \in Processes :
        (ret[p].done /\ ret[p].value.job_description_match # None) =>
            LET jd == ret[p].value.job_description_match[1]
            IN  jd.match_score # None =>
                    SharedTechKeywords \subseteq Range(jd.matched.skills)

====
